---- MODULE Spec2Model ----
(***************************************************************************)
(* A model of the OPAM machine-learning pipelines:                         *)
(*   src/ml_models/expense_predictor.py   ExpensePredictor (forecast)      *)
(*   src/ml_models/fraud_detector.py      FraudDetector (fraud scoring)    *)
(*   src/ml_models/run_ml.py              the orchestrator                 *)
(*                                                                         *)
(* Numbers.  The code computes in floating point; the model computes in    *)
(* integers with a stated unit per quantity:                               *)
(*   amounts, totals, per-model predictions     whole currency units       *)
(*   ensemble weights                           hundredths (0.25 is 25)    *)
(*   ensemble prediction                        hundredths of a unit       *)
(*   confidence                                 tenths of a percent        *)
(*   means, standard deviations, z-scores       thousandths                *)
(*   amount_percentile                          ten-thousandths            *)
(*   fraud sub-scores                           thousandths of a point     *)
(*   fused fraud score                          1/100000 of a point        *)
(* Inexact quotients and roots are rounded down.  An undefined value       *)
(* (pandas' NaN) is the value NaN below; arithmetic on it gives NaN.       *)
(***************************************************************************)
EXTENDS Integers, Sequences, FiniteSets, TLC

VARIABLES
    \* ---- ExpensePredictor.engineer_features / prepare_data
    fe_df,              \* the transactions handed to engineer_features
    monthly_df,         \* its result: one row per retained month (or NotRun)
    feature_columns,    \* ExpensePredictor.feature_columns
    fe_pc,              \* "start" | "engineered" | "prepared"
    \* ---- one ExpensePredictor object
    HAS_XGBOOST,        \* whether the import of xgboost succeeded
    ensemble_weights,   \* ExpensePredictor.ensemble_weights: name -> hundredths
    models,             \* ExpensePredictor.models: name -> the fitted model
    is_trained,         \* ExpensePredictor.is_trained
    scaler,             \* ExpensePredictor.scaler: the data it was fitted on, 0 if none
    pred_in,            \* total_amount column of the frame given to predict_next_month
    prediction,         \* what predict_next_month returned or raised (or NoResult)
    \* ---- one FraudDetector object, in detect_fraud
    fd_df,              \* the transactions handed to detect_fraud
    fd_featured,        \* engineer_features' frame (or NotRun)
    fd_feature_columns, \* FraudDetector.feature_columns
    isolation_forest,   \* FraudDetector.isolation_forest: None, or the decision
                        \* score the fitted forest gives each row
    fd_scaler,          \* whether FraudDetector.scaler was fitted
    fd_is_trained,      \* FraudDetector.is_trained
    contamination,      \* FraudDetector.contamination, in hundredths
    fd_scored,          \* calculate_fraud_scores' frame (or NotRun)
    fd_pc,              \* "start" | "engineered" | "prepared" | "trained" | "scored"
    \* ---- one run of run_ml.py
    argv,               \* the command line: the database path and the options
    db,                 \* the rows of the transactions table, in date order
    disk,               \* the files: a set of [path, kind]
    output,             \* main's output dict
    run_raised,         \* per pipeline, the step whose exception reached the
                        \* except clause ("none" if no step raised)
    stdout,             \* what main printed to the standard output (or NotRun)
    run_pc,             \* "start" | "expense" | "fraud" | "print" | "done" | "crashed"
    \* ---- one call of load_data_from_db (on the table db)
    ld_user_id,         \* the user id on the command line ("<absent>" if none)
    loaded,             \* what the call returned or raised (or NoResult)
    \* ---- one call of train_with_hyperparameter_tuning, lines 167-176
    tr_X,               \* the rows of X: one feature value each
    tr_result,          \* the scaler statistics and the two splits (or NoResult)
    \* ---- one tuned call of train_isolation_forest
    tu_outcomes,        \* tune, what each candidate does, what the final fit does
    tu_result,          \* what the sweep retained and the call reported (or NoResult)
    \* ---- the life of one ExpensePredictor or FraudDetector object
    life_obj,           \* "predictor" | "detector"
    detector,           \* the FraudDetector object's attributes
    det_result,         \* what the last calculate_fraud_scores returned or raised
    bundle,             \* the bundle file save_models wrote (or NoBundle)
    saved_from,         \* the object as it was when the bundle was written
    last_op             \* the last operation on the object, see Op

featVars == <<fe_df, monthly_df, feature_columns, fe_pc>>

predVars == <<HAS_XGBOOST, ensemble_weights, models, is_trained, scaler, pred_in, prediction>>

fraudVars == <<fd_df, fd_featured, fd_feature_columns, isolation_forest, fd_scaler,
               fd_is_trained, contamination, fd_scored, fd_pc>>

runVars == <<argv, db, disk, output, run_raised, stdout, run_pc>>

auxVars == <<ld_user_id, loaded, tr_X, tr_result, tu_outcomes, tu_result>>

lifeVars == <<life_obj, detector, det_result, bundle, saved_from, last_op>>

vars == <<fe_df, monthly_df, feature_columns, fe_pc,
          HAS_XGBOOST, ensemble_weights, models, is_trained, scaler, pred_in, prediction,
          fd_df, fd_featured, fd_feature_columns, isolation_forest, fd_scaler,
          fd_is_trained, contamination, fd_scored, fd_pc,
          argv, db, disk, output, run_raised, stdout, run_pc,
          ld_user_id, loaded, tr_X, tr_result, tu_outcomes, tu_result,
          life_obj, detector, det_result, bundle, saved_from, last_op>>

----------------------------------------------------------------------------
(* Bounds of the model *)

MaxMonths == 8          \* calendar months in an engineer_features input
MaxRows == 6            \* rows of a frame given to predict_next_month
MaxData == 1            \* distinct training sets given to one predictor
MaxTxns == 3            \* transactions in an enumerated detect_fraud input
MaxRunMonths == 12      \* calendar months of transactions in the database
MaxLoadRows == 3        \* rows of the table load_data_from_db queries
MaxSplitRows == 5       \* rows of X given to train_with_hyperparameter_tuning
MaxEstimators == 2      \* values of n_estimators the sweep runs over
MaxContaminations == 2  \* values of contamination the sweep runs over
MaxInnerValues == 1     \* values of max_samples and of max_features it runs over
MaxLifeData == 2        \* data sets an object is trained on in its life

----------------------------------------------------------------------------
(* Arithmetic helpers *)

NaN == 0 - 999999999

IsNaN(x) == x = NaN

Inf == 0 - NaN

NotRun == <<"not run">>

NoResult == [status |-> "none"]

\* Python's None where a list of numbers may stand.
None == <<>>

\* A missing (NULL) category or merchant.
Null == "<null>"

Max(a, b) == IF a >= b THEN a ELSE b

Min(a, b) == IF a <= b THEN a ELSE b

Abs(a) == IF a < 0 THEN 0 - a ELSE a

\* Sums, maxima and minima split their range in two, so that a column of a
\* hundred rows is no deeper than one of four.
RECURSIVE SumRange(_, _, _)
SumRange(s, lo, hi) ==
    IF lo > hi THEN 0
    ELSE IF lo = hi THEN s[lo]
    ELSE LET mid == (lo + hi) \div 2
         IN  SumRange(s, lo, mid) + SumRange(s, mid + 1, hi)

SumSeq(s) == SumRange(s, 1, Len(s))

RECURSIVE MaxRange(_, _, _)
MaxRange(s, lo, hi) ==
    IF lo = hi THEN s[lo]
    ELSE LET mid == (lo + hi) \div 2
         IN  Max(MaxRange(s, lo, mid), MaxRange(s, mid + 1, hi))

MaxSeq(s) == MaxRange(s, 1, Len(s))

RECURSIVE MinRange(_, _, _)
MinRange(s, lo, hi) ==
    IF lo = hi THEN s[lo]
    ELSE LET mid == (lo + hi) \div 2
         IN  Min(MinRange(s, lo, mid), MinRange(s, mid + 1, hi))

MinSeq(s) == MinRange(s, 1, Len(s))

\* lo*lo <= x < hi*hi is kept; the result is the integer square root of x.
RECURSIVE SqrtIter(_, _, _)
SqrtIter(x, lo, hi) ==
    IF hi - lo <= 1 THEN lo
    ELSE LET mid == (lo + hi) \div 2
         IN  IF mid * mid <= x THEN SqrtIter(x, mid, hi) ELSE SqrtIter(x, lo, mid)

ISqrt(x) == SqrtIter(x, 0, Min(x + 1, 46341))

\* The elements of a finite set of integers in ascending order.
RECURSIVE SortedSeq(_)
SortedSeq(S) ==
    IF S = {} THEN <<>>
    ELSE LET m == CHOOSE x \in S : \A y \in S : x <= y
         IN  <<m>> \o SortedSeq(S \ {m})

\* pandas' sample standard deviation (ddof = 1) of a list of whole numbers,
\* in thousandths; NaN for fewer than two values.  Deviations are taken from
\* the mean in thousandths and, where they are large, scaled to four digits
\* before squaring, as a float keeps a bounded number of digits.
SampleStd(xs) ==
    IF Len(xs) < 2 THEN NaN
    ELSE LET n    == Len(xs)
             mean == (1000 * SumSeq(xs)) \div n
             devs == [i \in 1..n |-> Abs(1000 * xs[i] - mean)]
             u    == 1 + MaxSeq(devs) \div 3000
             sq   == [i \in 1..n |-> (devs[i] \div u) * (devs[i] \div u)]
         IN  u * ISqrt(SumSeq(sq) \div (n - 1))

----------------------------------------------------------------------------
(* ExpensePredictor.engineer_features, src/ml_models/expense_predictor.py  *)
(* A transaction is [ym, amount]: ym is its calendar month, counted in     *)
(* months (12 * year + month - 1).                                         *)

\* Line 100: the months present, ascending (groupby sorts its keys).
YearMonths(df) == SortedSeq({df[i].ym : i \in 1..Len(df)})

AmountsOf(df, m) ==
    LET rows == SelectSeq(df, LAMBDA t : t.ym = m)
    IN  [i \in 1..Len(rows) |-> rows[i].amount]

\* Lines 102-108: one aggregated row per month present.
Aggregate(df) ==
    LET yms == YearMonths(df)
    IN  [i \in 1..Len(yms) |->
            LET a == AmountsOf(df, yms[i])
            IN  [year_month        |-> yms[i],
                 total_amount      |-> SumSeq(a),
                 avg_amount        |-> (1000 * SumSeq(a)) \div Len(a),
                 transaction_count |-> Len(a),
                 std_amount        |-> SampleStd(a),
                 max_amount        |-> MaxSeq(a),
                 min_amount        |-> MinSeq(a),
                 num_transactions  |-> Len(a)]]

\* Series.shift(k): the value k ROWS earlier, NaN where there is none.
Shift(col, i, k) == IF i - k >= 1 THEN col[i - k] ELSE NaN

\* Series.rolling(window=w): the last w rows ending at row i, or none.
Window(col, i, w) == IF i - w + 1 >= 1 THEN SubSeq(col, i - w + 1, i) ELSE <<>>

RollingMean(col, i, w) ==
    IF Window(col, i, w) = <<>> THEN NaN
    ELSE (1000 * SumSeq(Window(col, i, w))) \div w

RollingStd(col, i, w) ==
    IF Window(col, i, w) = <<>> THEN NaN ELSE SampleStd(Window(col, i, w))

RollingMax(col, i, w) ==
    IF Window(col, i, w) = <<>> THEN NaN ELSE MaxSeq(Window(col, i, w))

RollingMin(col, i, w) ==
    IF Window(col, i, w) = <<>> THEN NaN ELSE MinSeq(Window(col, i, w))

\* Series.pct_change(), in thousandths: NaN in the first row.
PctChange(col, i) ==
    IF i = 1 THEN NaN
    ELSE IF col[i - 1] = 0 THEN (IF col[i] = 0 THEN NaN ELSE Inf)
    ELSE (1000 * (col[i] - col[i - 1])) \div col[i - 1]

\* Lines 107-138: the columns of the monthly frame, in the order the code
\* creates them.
MonthlyColumns ==
    <<"year_month", "total_amount", "avg_amount", "transaction_count",
      "std_amount", "max_amount", "min_amount", "num_transactions",
      "date", "year", "month", "quarter", "is_q4", "is_year_start", "is_year_end",
      "lag_1", "lag_2", "lag_3", "lag_4", "lag_5", "lag_6",
      "rolling_mean_2", "rolling_std_2", "rolling_max_2", "rolling_min_2",
      "rolling_mean_3", "rolling_std_3", "rolling_max_3", "rolling_min_3",
      "rolling_mean_6", "rolling_std_6", "rolling_max_6", "rolling_min_6",
      "mom_growth", "mom_growth_lag1", "avg_txn_lag1", "txn_count_lag1">>

ColumnSet == {MonthlyColumns[i] : i \in 1..Len(MonthlyColumns)}

\* Lines 110-138: the value of column c in row i of the aggregated frame.
ColumnValue(agg, c, i) ==
    LET total == [j \in 1..Len(agg) |-> agg[j].total_amount]
        avg   == [j \in 1..Len(agg) |-> agg[j].avg_amount]
        cnt   == [j \in 1..Len(agg) |-> agg[j].transaction_count]
        mom   == [j \in 1..Len(agg) |-> PctChange(total, j)]
        ym    == agg[i].year_month
        month == (ym % 12) + 1
        quarter == ((month - 1) \div 3) + 1
    IN  CASE c = "year_month"        -> ym
          [] c = "total_amount"      -> agg[i].total_amount
          [] c = "avg_amount"        -> agg[i].avg_amount
          [] c = "transaction_count" -> agg[i].transaction_count
          [] c = "std_amount"        -> agg[i].std_amount
          [] c = "max_amount"        -> agg[i].max_amount
          [] c = "min_amount"        -> agg[i].min_amount
          [] c = "num_transactions"  -> agg[i].num_transactions
          [] c = "date"              -> ym
          [] c = "year"              -> ym \div 12
          [] c = "month"             -> month
          [] c = "quarter"           -> quarter
          [] c = "is_q4"             -> IF quarter = 4 THEN 1 ELSE 0
          [] c = "is_year_start"     -> IF month <= 2 THEN 1 ELSE 0
          [] c = "is_year_end"       -> IF month >= 11 THEN 1 ELSE 0
          [] c = "lag_1"             -> Shift(total, i, 1)
          [] c = "lag_2"             -> Shift(total, i, 2)
          [] c = "lag_3"             -> Shift(total, i, 3)
          [] c = "lag_4"             -> Shift(total, i, 4)
          [] c = "lag_5"             -> Shift(total, i, 5)
          [] c = "lag_6"             -> Shift(total, i, 6)
          [] c = "rolling_mean_2"    -> RollingMean(total, i, 2)
          [] c = "rolling_std_2"     -> RollingStd(total, i, 2)
          [] c = "rolling_max_2"     -> RollingMax(total, i, 2)
          [] c = "rolling_min_2"     -> RollingMin(total, i, 2)
          [] c = "rolling_mean_3"    -> RollingMean(total, i, 3)
          [] c = "rolling_std_3"     -> RollingStd(total, i, 3)
          [] c = "rolling_max_3"     -> RollingMax(total, i, 3)
          [] c = "rolling_min_3"     -> RollingMin(total, i, 3)
          [] c = "rolling_mean_6"    -> RollingMean(total, i, 6)
          [] c = "rolling_std_6"     -> RollingStd(total, i, 6)
          [] c = "rolling_max_6"     -> RollingMax(total, i, 6)
          [] c = "rolling_min_6"     -> RollingMin(total, i, 6)
          [] c = "mom_growth"        -> PctChange(total, i)
          [] c = "mom_growth_lag1"   -> Shift(mom, i, 1)
          [] c = "avg_txn_lag1"      -> Shift(avg, i, 1)
          [] c = "txn_count_lag1"    -> Shift(cnt, i, 1)

\* DataFrame.dropna(): the rows none of whose columns is NaN, order kept.
DropNa(rows) == SelectSeq(rows, LAMBDA r : \A c \in DOMAIN r : ~IsNaN(r[c]))

\* Lines 99-143.
EngineerFeaturesOf(df) ==
    LET agg == Aggregate(df)
    IN  DropNa([i \in 1..Len(agg) |-> [c \in ColumnSet |-> ColumnValue(agg, c, i)]])

\* Lines 150-152: the columns kept as features, in frame order.
ExcludeCols == {"year_month", "date", "total_amount", "num_transactions"}

FeatureColumnsOf(cols) == SelectSeq(cols, LAMBDA c : c \notin ExcludeCols)

----------------------------------------------------------------------------
(* Inputs of engineer_features: n months, each with one or two             *)
(* transactions (load_data_from_db never returns an empty frame); at most  *)
(* one calendar month without transactions in between.                     *)

BaseMonth == 12 * 2020      \* January 2020

MonthTxns(m, k, idx) ==
    [j \in 1..k |-> [ym |-> m, amount |-> 100 + 10 * idx + 5 * j]]

RECURSIVE BuildDf(_, _, _)
BuildDf(counts, gap, i) ==
    IF i > Len(counts) THEN <<>>
    ELSE MonthTxns(BaseMonth + i + (IF gap # 0 /\ i > gap THEN 1 ELSE 0), counts[i], i)
         \o BuildDf(counts, gap, i + 1)

ForecastInputs ==
    UNION {{BuildDf(counts, gap, 1) : counts \in [1..n -> 1..2], gap \in 0..(n - 1)}
           : n \in 1..MaxMonths}

----------------------------------------------------------------------------
(* Specification of the forecast feature builder *)

\* No run of run_ml.py.
Absent == [status |-> "absent"]

NoOutput ==
    [task |-> "<unset>", tuning |-> FALSE, expense_prediction |-> Absent,
     fraud_detection |-> Absent]

RunIdle ==
    /\ argv = <<>>
    /\ db = <<>>
    /\ disk = {}
    /\ output = NoOutput
    /\ run_raised = [expense_prediction |-> "none", fraud_detection |-> "none"]
    /\ stdout = NotRun
    /\ run_pc = "idle"

\* No call of load_data_from_db, no training call under study.
\* No call of train_isolation_forest is being considered.
NotTuned == [tune |-> FALSE, candidates |-> <<>>, final |-> "fitted"]

AuxIdle ==
    /\ ld_user_id = "<absent>"
    /\ loaded = NoResult
    /\ tr_X = <<>>
    /\ tr_result = NoResult
    /\ tu_outcomes = NotTuned
    /\ tu_result = NoResult

NoBundle == [kind |-> "none"]

\* An operation on the object: whether the call raised, and is_trained as it
\* was when the call was made.
Op(op, raised, was_trained) ==
    [op |-> op, raised |-> raised, was_trained |-> was_trained]

NoOp == Op("none", FALSE, FALSE)

\* No object whose life is followed.
LifeIdle ==
    /\ life_obj = "none"
    /\ detector = Absent
    /\ det_result = NoResult
    /\ bundle = NoBundle
    /\ saved_from = NoBundle
    /\ last_op = NoOp

\* FraudDetector.__init__, lines 40-46, with nothing handed to it.
FraudIdle ==
    /\ fd_df = <<>>
    /\ fd_featured = NotRun
    /\ fd_feature_columns = <<>>
    /\ isolation_forest = None
    /\ fd_scaler = FALSE
    /\ fd_is_trained = FALSE
    /\ contamination = 5
    /\ fd_scored = NotRun
    /\ fd_pc = "idle"

PredIdle ==
    /\ HAS_XGBOOST = FALSE
    /\ ensemble_weights = <<>>
    /\ models = <<>>
    /\ is_trained = FALSE
    /\ scaler = 0
    /\ pred_in = <<>>
    /\ prediction = NoResult

FeatInit ==
    /\ PredIdle
    /\ FraudIdle
    /\ RunIdle
    /\ AuxIdle
    /\ LifeIdle
    /\ fe_df \in ForecastInputs
    /\ monthly_df = NotRun
    /\ feature_columns = <<>>
    /\ fe_pc = "start"

EngineerFeatures ==
    /\ fe_pc = "start"
    /\ monthly_df' = EngineerFeaturesOf(fe_df)
    /\ fe_pc' = "engineered"
    /\ UNCHANGED <<fe_df, feature_columns>>
    /\ UNCHANGED predVars
    /\ UNCHANGED <<fraudVars, runVars, auxVars, lifeVars>>

PrepareData ==
    /\ fe_pc = "engineered"
    /\ feature_columns' = FeatureColumnsOf(MonthlyColumns)
    /\ fe_pc' = "prepared"
    /\ UNCHANGED <<fe_df, monthly_df>>
    /\ UNCHANGED predVars
    /\ UNCHANGED <<fraudVars, runVars, auxVars, lifeVars>>

FeatNext == EngineerFeatures \/ PrepareData

SpecFeatures == FeatInit /\ [][FeatNext]_vars

----------------------------------------------------------------------------
(* One ExpensePredictor object, src/ml_models/expense_predictor.py         *)
(* A fitted model is modelled by the raw point prediction it gives for the *)
(* row predict_next_month asks about (a whole number, possibly negative).  *)

ModelNames == <<"linear", "ridge", "random_forest", "gradient_boosting", "xgboost">>

\* Range(f): the values of a sequence or function.
Range(f) == {f[x] : x \in DOMAIN f}

\* Lines 56-68: the weight map the constructor builds, in hundredths.
InitWeights(has_xgboost) ==
    LET all == [n \in Range(ModelNames) |->
                   CASE n = "linear"            -> 10
                     [] n = "ridge"             -> 15
                     [] n = "random_forest"     -> 25
                     [] n = "gradient_boosting" -> 25
                     [] n = "xgboost"           -> 25]
    IN  IF has_xgboost THEN all
        ELSE [n \in Range(ModelNames) \ {"xgboost"} |->
                 CASE n = "gradient_boosting" -> 35
                   [] n = "random_forest"     -> 30
                   [] OTHER                   -> all[n]]

\* Lines 180-295: the models train_with_hyperparameter_tuning fits, in order.
TrainOrder(has_xgboost) ==
    IF has_xgboost THEN ModelNames ELSE SubSeq(ModelNames, 1, 4)

\* A prediction passed on as the model gave it.
ClampPredictionOmitted(pred) == pred

\* Line 353: predictions[name] = max(0, pred).
ClampPrediction(pred) == Max(0, pred)

RECURSIVE SumOver(_, _)
SumOver(f, S) ==
    IF S = {} THEN 0
    ELSE LET x == CHOOSE y \in S : TRUE IN f[x] + SumOver(f, S \ {x})

\* Lines 356-360: the ensemble value, in hundredths, of the per-model
\* predictions preds (already clamped at line 353); dict.get(name, 0).
EnsembleOf(weights, preds) ==
    Max(0, SumOver([n \in DOMAIN preds |->
                       (IF n \in DOMAIN weights THEN weights[n] ELSE 0) * preds[n]],
                   DOMAIN preds))

\* A zero mean read as perfect agreement.
CoefficientOfVariationZeroElse(n, s, q) ==
    IF n > 0 /\ s > 0 THEN ISqrt(1000000 * (n * q - s * s)) \div s ELSE 0

\* Line 366: the coefficient of variation in tenths of a percent given the
\* number n, the sum s and the sum of squares q of the predictions:
\* 100 * std / mean with std the population deviation (numpy.std), when the
\* mean is positive, and 100 otherwise.
CoefficientOfVariation(n, s, q) ==
    IF n > 0 /\ s > 0 THEN ISqrt(1000000 * (n * q - s * s)) \div s ELSE 1000

\* Lines 363-367: confidence in tenths of a percent.
ConfidenceOf(preds) ==
    LET n == Cardinality(DOMAIN preds)
        s == SumOver(preds, DOMAIN preds)
        q == SumOver([m \in DOMAIN preds |-> preds[m] * preds[m]], DOMAIN preds)
    IN  Max(0, Min(1000, 1000 - CoefficientOfVariation(n, s, q)))

\* The thresholds of lines 373 and 375 taken as reached, not exceeded.
TrendOfInclusive(totals) ==
    LET len == Len(totals)
    IN  IF len >= 3 THEN
            LET recent == SumSeq(SubSeq(totals, len - 2, len))
                older  == IF len >= 6 THEN SumSeq(SubSeq(totals, len - 5, len - 3))
                          ELSE recent
            IN  IF 10 * recent >= 11 * older THEN "increasing"
                ELSE IF 10 * recent <= 9 * older THEN "decreasing"
                ELSE "stable"
        ELSE "insufficient_data"

\* Lines 370-380: the trend label of a total_amount column.
TrendOf(totals) ==
    LET len == Len(totals)
    IN  IF len >= 3 THEN
            LET recent == SumSeq(SubSeq(totals, len - 2, len))
                older  == IF len >= 6 THEN SumSeq(SubSeq(totals, len - 5, len - 3))
                          ELSE recent
            IN  IF 10 * recent > 11 * older THEN "increasing"
                ELSE IF 10 * recent < 9 * older THEN "decreasing"
                ELSE "stable"
        ELSE "insufficient_data"

\* Lines 342-387: what predict_next_month returns or raises.
PredictNextMonthOf(trained, fitted, weights, totals) ==
    IF ~trained THEN [status |-> "raised", error |-> "ValueError: Models not trained"]
    ELSE IF totals = <<>> THEN [status |-> "raised", error |-> "ValueError: 0 samples"]
    ELSE LET preds == [n \in DOMAIN fitted |-> ClampPrediction(fitted[n])]
         IN  [status      |-> "returned",
              raw         |-> fitted,     \* line 352's values, not in the dict
              predictions |-> preds,
              ensemble    |-> EnsembleOf(weights, preds),
              confidence  |-> ConfidenceOf(preds),
              trend       |-> TrendOf(totals)]

\* Lines 342-387 on an object whose scaler may not be fitted (0):
\* scaler.transform at line 347 then raises NotFittedError.
PredictNextMonthWith(trained, fitted_scaler, fitted, weights, totals) ==
    IF trained /\ fitted_scaler = 0
    THEN [status |-> "raised", error |-> "NotFittedError: StandardScaler"]
    ELSE PredictNextMonthOf(trained, fitted, weights, totals)

----------------------------------------------------------------------------
(* Inputs of the predictor's operations *)

\* Raw point predictions a fitted model may give.
PredictionValues == {0 - 2, 0, 4}

\* A training set is told by what the models fitted on it predict: `base`,
\* but for the model `odd`, which predicts `other`.
TrainingSets ==
    [base : PredictionValues, other : PredictionValues, odd : {"linear"}]

\* Training sets on which no model predicts a negative amount.
PlainTrainingSets == {t \in TrainingSets : t.base = 4 /\ t.other >= 0}

\* Monthly totals are sums of positive amounts.
TotalLevels == {90, 100, 110}

\* total_amount columns of n rows: the rows before the last three hold
\* `older`, the last three hold `recent`, `recent`, `last`.
FrameOf(n, older, recent, last) ==
    [i \in 1..n |-> IF i = n THEN last ELSE IF i >= n - 2 THEN recent ELSE older]

MonthlyTotals ==
    {FrameOf(n, o, r, l) : n \in 0..MaxRows, o \in TotalLevels, r \in TotalLevels,
                           l \in TotalLevels}

\* The empty frame and a frame of three equal months.
FlatTotals == {FrameOf(n, 100, 100, 100) : n \in {0, 3}}

----------------------------------------------------------------------------
(* Specifications of one ExpensePredictor object *)

FeatIdle ==
    /\ fe_df = <<>>
    /\ monthly_df = NotRun
    /\ feature_columns = <<>>
    /\ fe_pc = "idle"

\* Lines 35-39 and 49-68: the import of xgboost, then the constructor.
PredInit ==
    /\ FeatIdle
    /\ FraudIdle
    /\ RunIdle
    /\ AuxIdle
    /\ LifeIdle
    /\ HAS_XGBOOST \in BOOLEAN
    /\ ensemble_weights = InitWeights(HAS_XGBOOST)
    /\ models = <<>>
    /\ is_trained = FALSE
    /\ scaler = 0
    /\ pred_in = <<>>
    /\ prediction = NoResult

\* Lines 158-310: train_with_hyperparameter_tuning on training set t, the
\* d-th data seen.  The scaler is fitted first; every model is stored as soon
\* as it is fitted; a fit or an evaluation that raises ends the call after
\* `done` models, before is_trained is set at line 309.
TrainOn(d, t, done) ==
    LET order  == TrainOrder(HAS_XGBOOST)
        fitted == {order[i] : i \in 1..Min(done, Len(order))}
        old    == DOMAIN models \ fitted
    IN  /\ scaler' = d
        /\ models' = [n \in fitted \cup old |->
                         IF n \in fitted THEN (IF n = t.odd THEN t.other ELSE t.base)
                         ELSE models[n]]
        /\ is_trained' = (is_trained \/ done >= Len(order))
        /\ UNCHANGED <<HAS_XGBOOST, ensemble_weights, pred_in, prediction>>
        /\ UNCHANGED featVars
        /\ UNCHANGED <<fraudVars, runVars, auxVars>>

\* Lines 336-387: predict_next_month on a frame with these totals.
PredictOn(totals) ==
    /\ pred_in' = totals
    /\ prediction' = PredictNextMonthWith(is_trained, scaler, models, ensemble_weights,
                                        totals)
    /\ UNCHANGED <<HAS_XGBOOST, ensemble_weights, models, is_trained, scaler>>
    /\ UNCHANGED featVars
    /\ UNCHANGED <<fraudVars, runVars, auxVars>>

\* Any training set, any point of failure; two frames.
Train ==
    /\ \E d \in 1..MaxData, t \in TrainingSets, done \in 0..Len(ModelNames) :
          TrainOn(d, t, done)
    /\ UNCHANGED lifeVars

PredictNextMonth ==
    /\ \E totals \in FlatTotals : PredictOn(totals)
    /\ UNCHANGED lifeVars

PredNext == Train \/ PredictNextMonth

SpecPredictor == PredInit /\ [][PredNext]_vars

\* Trainings that complete; every frame.
TrainPlain ==
    /\ \E d \in 1..MaxData, t \in PlainTrainingSets : TrainOn(d, t, Len(ModelNames))
    /\ UNCHANGED lifeVars

PredictTrend ==
    /\ \E totals \in MonthlyTotals : PredictOn(totals)
    /\ UNCHANGED lifeVars

TrendNext == TrainPlain \/ PredictTrend

SpecTrend == PredInit /\ [][TrendNext]_vars

----------------------------------------------------------------------------
(* FraudDetector, src/ml_models/fraud_detector.py                          *)
(* A transaction is [id, user_id, amount, category, merchant, hour,        *)
(* day_of_week, day]: hour and day_of_week are those of its date, day is   *)
(* its calendar day.  The columns that only feed the forest (log_amount,   *)
(* the encoded category and payment method, day_of_month, is_month_end)    *)
(* are left out: the forest is modelled by the decision scores it gives.   *)

Amounts(df) == [i \in 1..Len(df) |-> df[i].amount]

AmountsIn(df, cat) ==
    LET rows == SelectSeq(df, LAMBDA t : t.category = cat)
    IN  [i \in 1..Len(rows) |-> rows[i].amount]

\* Lines 103-105: groupby('category') leaves the rows without a category
\* out, so the left merge gives them no cat_mean and no cat_std.
CatMean(df, cat) ==
    IF cat = Null THEN NaN
    ELSE (1000 * SumSeq(AmountsIn(df, cat))) \div Len(AmountsIn(df, cat))

CatStd(df, cat) == IF cat = Null THEN NaN ELSE SampleStd(AmountsIn(df, cat))

\* The category deviation left as the merge gave it.
CatStdNotFilled(df, cat) == CatStd(df, cat)

\* Line 106: fillna(df['amount'].std()).
FilledCatStd(df, cat) ==
    IF IsNaN(CatStd(df, cat)) THEN SampleStd(Amounts(df)) ELSE CatStd(df, cat)

\* a / b in thousandths for a >= 0 and b > 0 given in the same unit; a large
\* a is divided in two steps, to the digits a float would keep.
Quotient(a, b) ==
    IF a < 2000000 THEN (1000 * a) \div b
    ELSE LET k == 1 + b \div 2000000
         IN  1000 * (a \div b) + (1000 * ((a % b) \div k)) \div Max(1, b \div k)

\* Line 107: (amount - cat_mean) / (cat_std + 1), in thousandths.
AmountZScore(amount, cat_mean, cat_std) ==
    IF IsNaN(cat_mean) \/ IsNaN(cat_std) THEN NaN
    ELSE LET d == 1000 * amount - cat_mean
         IN  IF d >= 0 THEN Quotient(d, cat_std + 1000)
             ELSE 0 - Quotient(0 - d, cat_std + 1000)

\* Line 110: rank(pct=True), ties sharing their average rank, in
\* ten-thousandths.
AmountPercentile(df, i) ==
    LET less  == Cardinality({j \in 1..Len(df) : df[j].amount < df[i].amount})
        equal == Cardinality({j \in 1..Len(df) : df[j].amount = df[i].amount})
    IN  (10000 * (2 * less + equal + 1)) \div (2 * Len(df))

\* Lines 115-117: the transactions of the same user on the same day.
DailyTxnCount(df, i) ==
    Cardinality({j \in 1..Len(df) : df[j].user_id = df[i].user_id /\ df[j].day = df[i].day})

\* Lines 125-126: value_counts() does not count a missing merchant, and
\* map() gives it NaN.
MerchantFrequency(df, i) ==
    IF df[i].merchant = Null THEN NaN
    ELSE Cardinality({j \in 1..Len(df) : df[j].merchant = df[i].merchant})

\* Lines 77-132: the row of transaction i with its features.
FeaturedRow(df, i) ==
    LET t    == df[i]
        mean == CatMean(df, t.category)
        std  == FilledCatStd(df, t.category)
        pct  == AmountPercentile(df, i)
        freq == MerchantFrequency(df, i)
    IN  [id                 |-> t.id,
         amount             |-> t.amount,
         category           |-> t.category,
         merchant           |-> t.merchant,
         is_weekend         |-> IF t.day_of_week >= 5 THEN 1 ELSE 0,
         is_night           |-> IF t.hour >= 22 \/ t.hour <= 5 THEN 1 ELSE 0,
         cat_mean           |-> mean,
         cat_std            |-> std,
         amount_zscore      |-> AmountZScore(t.amount, mean, std),
         amount_percentile  |-> pct,
         is_high_value      |-> IF pct > 9500 THEN 1 ELSE 0,
         daily_txn_count    |-> DailyTxnCount(df, i),
         high_velocity      |-> IF DailyTxnCount(df, i) > 5 THEN 1 ELSE 0,
         merchant_frequency |-> freq,
         rare_merchant      |-> IF ~IsNaN(freq) /\ freq <= 2 THEN 1 ELSE 0]

FraudFeaturesOf(df) == [i \in 1..Len(df) |-> FeaturedRow(df, i)]

\* Lines 136-146: the feature columns, all of which the frame has.
FraudFeatureColumns ==
    <<"amount", "log_amount", "hour", "day_of_week", "is_weekend",
      "is_night", "day_of_month", "is_month_end", "category_encoded",
      "payment_encoded", "amount_zscore", "amount_percentile",
      "is_high_value", "daily_txn_count", "high_velocity",
      "merchant_frequency", "rare_merchant">>

\* Lines 255-262: the anomaly score of row i in thousandths of a point, from
\* the forest's decision scores; 1e-10 is below the model's resolution but
\* keeps the quotient defined when all decision scores are equal.
MlAnomalyScore(forest, i) ==
    IF forest = None THEN 0
    ELSE LET lo == MinSeq(forest)
             hi == MaxSeq(forest)
         IN  IF hi = lo THEN 100000
             ELSE 100000 - (100000 * (forest[i] - lo)) \div (hi - lo)

\* Line 274: np.minimum(np.abs(zscore) * 5, 25), in thousandths; NaN stays.
DeviationScore(z) == IF IsNaN(z) THEN NaN ELSE Min(5 * Abs(z), 25000)

\* Lines 280-287: the weighted sum, in hundred-thousandths of a point, of
\* the six sub-scores given in thousandths; NaN if one of them is.
WeightedSum(ml, amount, time, velocity, deviation, merchant) ==
    IF \E x \in {ml, amount, time, velocity, deviation, merchant} : IsNaN(x) THEN NaN
    ELSE 40 * ml + 20 * amount + 10 * time + 10 * velocity + 15 * deviation + 5 * merchant

\* Line 290: np.clip(score, 0, 100); NaN stays.
Clip(score) == IF IsNaN(score) THEN NaN ELSE Max(0, Min(10000000, score))

\* Lines 293-297: pd.cut(bins=[0, 25, 50, 75, 100]) with its defaults
\* right=True, include_lowest=False: (0,25], (25,50], (50,75], (75,100];
\* a value in no bin, or NaN, gets no label ("NaN").
RiskLevel(score) ==
    IF IsNaN(score) \/ score <= 0 \/ score > 10000000 THEN "NaN"
    ELSE IF score <= 2500000 THEN "Low"
    ELSE IF score <= 5000000 THEN "Medium"
    ELSE IF score <= 7500000 THEN "High"
    ELSE "Critical"

\* Lines 254-297: the scored row of featured row r, the i-th.
ScoredRow(r, forest, i) ==
    LET ml        == MlAnomalyScore(forest, i)
        amount    == 3 * r.amount_percentile
        time      == 1000 * (r.is_night * 15 + r.is_weekend * 5)
        velocity  == 1000 * Min(r.daily_txn_count * 3, 15)
        deviation == DeviationScore(r.amount_zscore)
        merchant  == 1000 * r.rare_merchant * 10
        score     == Clip(WeightedSum(ml, amount, time, velocity, deviation, merchant))
    IN  [id               |-> r.id,
         amount           |-> r.amount,
         category         |-> r.category,
         merchant         |-> r.merchant,
         amount_zscore    |-> r.amount_zscore,
         is_high_value    |-> r.is_high_value,
         ml_anomaly_score |-> ml,
         amount_score     |-> amount,
         time_score       |-> time,
         velocity_score   |-> velocity,
         deviation_score  |-> deviation,
         merchant_score   |-> merchant,
         fraud_score      |-> score,
         risk_level       |-> RiskLevel(score)]

FraudScoresOf(featured, forest) ==
    [i \in 1..Len(featured) |-> ScoredRow(featured[i], forest, i)]

----------------------------------------------------------------------------
(* Inputs of detect_fraud *)

Categories == {"food", "rent", Null}

\* Decision scores a fitted forest may give a row (lower: more anomalous).
DecisionLevels == {0, 13, 25}

\* n transactions of one user.  Amounts ascend (10, 20, ...) or are all 20;
\* all are in "food" but transaction `c`, if any, which is in category
\* `cat`; all are at "shop" but transaction `m`, if any, which has no
\* merchant; all are on one day or each on its own; `night`: all on a
\* Saturday at 23h, else on a Wednesday at 12h.
SmallInput(n, asc, c, cat, m, oneDay, night) ==
    [i \in 1..n |->
        [id          |-> i,
         user_id     |-> 1,
         amount      |-> IF asc THEN 10 * i ELSE 20,
         category    |-> IF i = c THEN cat ELSE "food",
         merchant    |-> IF i = m THEN Null ELSE "shop",
         hour        |-> IF night THEN 23 ELSE 12,
         day_of_week |-> IF night THEN 5 ELSE 2,
         day         |-> IF oneDay THEN 1 ELSE i]]

SmallInputs ==
    UNION {{SmallInput(n, asc, c, cat, m, oneDay, night) :
               asc \in BOOLEAN, c \in 1..n, cat \in Categories, m \in 0..n,
               oneDay \in BOOLEAN, night \in BOOLEAN}
           : n \in 1..MaxTxns}

\* The example of the specification: one transaction of 100,000 among 99
\* transactions of 50, each on its own day; the large one in the category of
\* the others or in one of its own.
LargeInput(cat, night) ==
    [i \in 1..100 |->
        [id          |-> i,
         user_id     |-> 1,
         amount      |-> IF i = 100 THEN 100000 ELSE 50,
         category    |-> IF i = 100 THEN cat ELSE "food",
         merchant    |-> "shop",
         hour        |-> IF night THEN 23 ELSE 12,
         day_of_week |-> IF night THEN 5 ELSE 2,
         day         |-> i]]

LargeInputs == {LargeInput(cat, night) : cat \in {"food", "rent"}, night \in BOOLEAN}

IsLargeInput(df) == Len(df) = 100

\* A busy day: five transactions of one user on one Saturday at 23h, four of
\* 20 in "food" at "shop" and a fifth of 50 in category `cat` at `merchant`.
BusyDayInput(cat, merchant) ==
    [i \in 1..5 |->
        [id          |-> i,
         user_id     |-> 1,
         amount      |-> IF i = 5 THEN 50 ELSE 20,
         category    |-> IF i = 5 THEN cat ELSE "food",
         merchant    |-> IF i = 5 THEN merchant ELSE "shop",
         hour        |-> 23,
         day_of_week |-> 5,
         day         |-> 1]]

BusyDayInputs ==
    {BusyDayInput(cat, merchant) : cat \in {"food", "rent"}, merchant \in {"shop", "kiosk"}}

FraudInputs == SmallInputs \cup LargeInputs \cup BusyDayInputs

\* The decision scores a forest fitted on df may give its rows: any, for a
\* small input; for the large one, one level for the large transaction and
\* one for all the others.
DecisionScores(df) ==
    IF IsLargeInput(df)
    THEN {[i \in 1..100 |-> IF i = 100 THEN a ELSE b] : a \in DecisionLevels, b \in DecisionLevels}
    ELSE [1..Len(df) -> DecisionLevels]

----------------------------------------------------------------------------
(* Specification of one FraudDetector object running detect_fraud,         *)
(* lines 301-337                                                           *)

FraudInit ==
    /\ FeatIdle
    /\ PredIdle
    /\ RunIdle
    /\ AuxIdle
    /\ LifeIdle
    /\ fd_df \in FraudInputs
    /\ fd_featured = NotRun
    /\ fd_feature_columns = <<>>
    /\ isolation_forest = None
    /\ fd_scaler = FALSE
    /\ fd_is_trained = FALSE
    /\ contamination = 5
    /\ fd_scored = NotRun
    /\ fd_pc = "start"

\* Lines 66-132.
FraudEngineerFeatures ==
    /\ fd_pc = "start"
    /\ fd_featured' = FraudFeaturesOf(fd_df)
    /\ fd_pc' = "engineered"
    /\ UNCHANGED <<fd_df, fd_feature_columns, isolation_forest, fd_scaler, fd_is_trained,
                   contamination, fd_scored>>
    /\ UNCHANGED <<featVars, predVars, runVars, auxVars, lifeVars>>

\* Lines 134-149.
PrepareFeatures ==
    /\ fd_pc = "engineered"
    /\ fd_feature_columns' = FraudFeatureColumns
    /\ fd_pc' = "prepared"
    /\ UNCHANGED <<fd_df, fd_featured, isolation_forest, fd_scaler, fd_is_trained,
                   contamination, fd_scored>>
    /\ UNCHANGED <<featVars, predVars, runVars, auxVars, lifeVars>>

\* Lines 151-245: the scaler is fitted, then a forest; with tuning the
\* contamination of the retained candidate (or the default 0.05 when no
\* candidate was retained) is stored first.
TrainIsolationForest ==
    /\ fd_pc = "prepared"
    /\ \E tune \in BOOLEAN, scores \in DecisionScores(fd_df), best \in {1, 2, 5, 10} :
          /\ fd_scaler' = TRUE
          /\ contamination' = IF tune THEN best ELSE contamination
          /\ isolation_forest' = scores
          /\ fd_is_trained' = TRUE
    /\ fd_pc' = "trained"
    /\ UNCHANGED <<fd_df, fd_featured, fd_feature_columns, fd_scored>>
    /\ UNCHANGED <<featVars, predVars, runVars, auxVars, lifeVars>>

\* Lines 247-299.
CalculateFraudScores ==
    /\ fd_pc = "trained"
    /\ fd_scored' = FraudScoresOf(fd_featured, isolation_forest)
    /\ fd_pc' = "scored"
    /\ UNCHANGED <<fd_df, fd_featured, fd_feature_columns, isolation_forest, fd_scaler,
                   fd_is_trained, contamination>>
    /\ UNCHANGED <<featVars, predVars, runVars, auxVars, lifeVars>>

FraudNext ==
    FraudEngineerFeatures \/ PrepareFeatures \/ TrainIsolationForest \/ CalculateFraudScores

SpecFraud == FraudInit /\ [][FraudNext]_vars

----------------------------------------------------------------------------
(* The orchestrator, src/ml_models/run_ml.py                               *)
(* A path is the sequence of its parts, "opam.db" being <<"opam", ".db">>. *)

Pipelines == {"expense_prediction", "fraud_detection"}

\* str.replace(old, new): every occurrence is replaced; a path without the
\* part is returned as it is.
Replace(path, old, new) == [i \in DOMAIN path |-> IF path[i] = old THEN new ELSE path[i]]

\* Lines 52 and 79: the paths of the two model bundles.
ExpenseModelPath(db_path) == Replace(db_path, ".db", "_expense_models.joblib")

FraudModelPath(db_path) == Replace(db_path, ".db", "_fraud_models.joblib")

\* joblib.dump(bundle, path): the file at path is created or overwritten.
Dump(files, path, kind) ==
    {f \in files : f.path # path} \cup {[path |-> path, kind |-> kind]}

\* Lines 106-116: the task asked for, 'all' unless a --task= option is given.
TaskOf(args) == IF args.task = "<absent>" THEN "all" ELSE args.task

\* Lines 120 and 124: the pipelines main runs for a task.
Requested(task) ==
    (IF task \in {"all", "predict"} THEN {"expense_prediction"} ELSE {})
    \cup (IF task \in {"all", "fraud"} THEN {"fraud_detection"} ELSE {})

\* load_data_from_db (expense_predictor.py lines 70-86, fraud_detector.py
\* lines 48-64): "ok", or the error raised: the file at db_path must be a
\* database, and the query must return a row.
LoadDataFromDb(files, db_path, rows) ==
    IF [path |-> db_path, kind |-> "database"] \notin files THEN "DatabaseError"
    ELSE IF Len(rows) = 0 THEN "No transaction data found"
    ELSE "ok"

\* A pipeline that lets its exception go on to its caller.
ExceptionNotCaught(e) == [status |-> "raised", message |-> e]

\* Lines 63-64 and 94-95: except Exception as e: return {'status': 'error',
\* 'message': str(e)}.
ExceptException(e) == [status |-> "error", message |-> e]

\* Lines 38, 43 and 75: the results returned for too little data.
FewTransactionsForPrediction ==
    [status |-> "error", message |-> "Need at least 10 transactions for prediction"]

FewMonths == [status |-> "error", message |-> "Need at least 3 months of data"]

FewTransactionsForFraud ==
    [status |-> "error", message |-> "Need at least 10 transactions for fraud detection"]

\* The models a training on set t has stored once the models `names` are
\* fitted (expense_predictor.py lines 183, 203-207, 233-237, 261-265,
\* 291-295).
FittedBy(t, names) == [n \in names |-> IF n = t.odd THEN t.other ELSE t.base]

\* The total_amount column of a monthly frame.
TotalsOf(monthly) == [i \in 1..Len(monthly) |-> monthly[i]["total_amount"]]

\* fraud_detector.py line 323: the rows with a fused score above 50.
Flagged(scored) ==
    {i \in 1..Len(scored) :
        ~IsNaN(scored[i].fraud_score) /\ scored[i].fraud_score > 5000000}

----------------------------------------------------------------------------
(* Inputs of a run *)

\* The transactions of n calendar months without a gap, k in each, of one
\* user, in one category, at one merchant, each on a day of its own, at noon
\* on a Wednesday.
RunInput(n, k) ==
    [i \in 1..(n * k) |->
        LET m == 1 + ((i - 1) \div k)
            j == 1 + ((i - 1) % k)
        IN  [id          |-> i,
             user_id     |-> 1,
             ym          |-> BaseMonth + m,
             amount      |-> 100 + 10 * m + 5 * j,
             category    |-> "food",
             merchant    |-> "shop",
             hour        |-> 12,
             day_of_week |-> 2,
             day         |-> i]]

RunInputs == {RunInput(n, k) : n \in 0..MaxRunMonths, k \in 1..2}

\* Command lines: <database_path> [--task=<task>] [--no-tune].
CommandLines ==
    [db_path : {<<"opam", ".db">>, <<"opam", ".sqlite">>},
     task    : {"<absent>", "all", "predict", "fraud", "report"},
     no_tune : BOOLEAN]

\* The step of run_expense_prediction at which a library call raises.
ExpenseFaults == {"none", "load", "features", "train", "predict", "category", "save"}

\* The step of run_fraud_detection at which a library call raises.
FraudFaults == {"none", "load", "features", "train", "score", "summary", "save"}

\* What the models fitted in a run predict.
RunTrainingSets == {t \in PlainTrainingSets : t.other = 0}

\* Decision scores of a forest fitted in a run: equal for all rows, or
\* lowest for the first one.
RunDecisionScores(df) ==
    {[i \in 1..Len(df) |-> IF i <= a THEN 0 ELSE 25] : a \in 0..1}

----------------------------------------------------------------------------
(* Specification of one run of run_ml.py *)

\* The state in which main starts: the database file exists, the two
\* objects are not built yet.
RunInit ==
    /\ FeatIdle
    /\ FraudIdle
    /\ AuxIdle
    /\ LifeIdle
    /\ HAS_XGBOOST \in BOOLEAN
    /\ ensemble_weights = <<>>
    /\ models = <<>>
    /\ is_trained = FALSE
    /\ scaler = 0
    /\ pred_in = <<>>
    /\ prediction = NoResult
    /\ argv \in CommandLines
    /\ db \in RunInputs
    /\ disk = {[path |-> argv.db_path, kind |-> "database"]}
    /\ output = NoOutput
    /\ run_raised = [expense_prediction |-> "none", fraud_detection |-> "none"]
    /\ stdout = NotRun
    /\ run_pc = "start"

\* Lines 106-118: the options are read and the output dict is started (no
\* user id is given).
ParseArguments ==
    /\ run_pc = "start"
    /\ output' = [task |-> TaskOf(argv), tuning |-> ~argv.no_tune,
                  expense_prediction |-> Absent, fraud_detection |-> Absent]
    /\ run_pc' = "expense"
    /\ UNCHANGED <<argv, db, disk, run_raised, stdout>>
    /\ UNCHANGED <<featVars, predVars, fraudVars, auxVars, lifeVars>>

\* Lines 31-64, called at line 122: run_expense_prediction, in which the
\* library call of step `fault` raises (the training after `done` models),
\* and in which the fitted models predict as training set t tells; monthly
\* is the frame engineer_features gives at line 40.
ExpensePipeline(monthly, fault, t, done) ==
    LET load    == IF fault = "load" THEN "OperationalError"
                   ELSE LoadDataFromDb(disk, argv.db_path, db)
        rows    == Len(monthly)
        order   == TrainOrder(HAS_XGBOOST)
        \* expense_predictor.py lines 168 and 174-175: TimeSeriesSplit(3) needs
        \* four training rows, and the searches of a tuned training use it.
        split_idx == (8 * rows) \div 10
        folds   == output.tuning /\ split_idx < 4
        nfit    == Min(IF fault = "train" THEN done ELSE Len(order),
                       IF folds THEN 1 ELSE Len(order))
        trainRaised == fault = "train" \/ folds
        fitted  == FittedBy(t, {order[i] : i \in 1..nfit})
        weights == InitWeights(HAS_XGBOOST)
        pred    == PredictNextMonthOf(~trainRaised, fitted, weights, TotalsOf(monthly))
        stage   == IF load # "ok" THEN "load"
                   ELSE IF Len(db) < 10 THEN "few_transactions"
                   ELSE IF fault = "features" THEN "features"
                   ELSE IF rows < 3 THEN "few_months"
                   ELSE IF trainRaised THEN "train"
                   ELSE IF fault = "predict" \/ pred.status = "raised" THEN "predict"
                   ELSE IF fault = "category" THEN "category"
                   ELSE IF fault = "save" THEN "save"
                   ELSE "success"
        called     == stage \notin {"load", "few_transactions"}
        engineered == called /\ stage # "features"
        training   == engineered /\ stage # "few_months"
        predicted  == stage \in {"category", "save", "success"}
        result  == CASE stage = "load"             -> ExceptException(load)
                     [] stage = "few_transactions" -> FewTransactionsForPrediction
                     [] stage = "few_months"       -> FewMonths
                     [] stage = "success" ->
                            [status       |-> "success",
                             predictions  |-> pred,
                             models_saved |-> ExpenseModelPath(argv.db_path)]
                     [] OTHER -> ExceptException(stage)
    IN  /\ ensemble_weights' = weights
        /\ fe_df' = IF called THEN db ELSE <<>>
        /\ monthly_df' = IF engineered THEN monthly ELSE NotRun
        /\ feature_columns' = IF training THEN FeatureColumnsOf(MonthlyColumns) ELSE <<>>
        /\ fe_pc' = IF training THEN "prepared"
                    ELSE IF engineered THEN "engineered"
                    ELSE IF called THEN "start" ELSE "idle"
        /\ scaler' = IF training THEN 1 ELSE 0
        /\ models' = IF training THEN fitted ELSE <<>>
        /\ is_trained' = (training /\ ~trainRaised)
        /\ pred_in' = IF predicted THEN TotalsOf(monthly) ELSE <<>>
        /\ prediction' = IF predicted THEN pred ELSE NoResult
        /\ disk' = IF stage = "success"
                   THEN Dump(disk, ExpenseModelPath(argv.db_path), "expense_models")
                   ELSE disk
        /\ run_raised' = [run_raised EXCEPT !.expense_prediction =
                             IF stage \in {"few_transactions", "few_months", "success"}
                             THEN "none" ELSE stage]
        \* an exception that leaves the function ends main
        /\ IF result.status = "raised"
           THEN run_pc' = "crashed" /\ UNCHANGED output
           ELSE /\ run_pc' = "fraud"
                /\ output' = [output EXCEPT !.expense_prediction = result]
        /\ UNCHANGED <<HAS_XGBOOST, argv, db, stdout>>
        /\ UNCHANGED <<fraudVars, auxVars, lifeVars>>

\* Lines 120-122.
RunExpensePrediction ==
    /\ run_pc = "expense"
    /\ "expense_prediction" \in Requested(output.task)
    /\ \E monthly \in {EngineerFeaturesOf(db)}, fault \in ExpenseFaults,
          t \in RunTrainingSets :
          \E done \in IF fault = "train" THEN 0..Len(ModelNames) ELSE {Len(ModelNames)} :
              ExpensePipeline(monthly, fault, t, done)

\* Line 120, the task being neither 'all' nor 'predict'.
SkipExpensePrediction ==
    /\ run_pc = "expense"
    /\ "expense_prediction" \notin Requested(output.task)
    /\ run_pc' = "fraud"
    /\ UNCHANGED <<argv, db, disk, output, run_raised, stdout>>
    /\ UNCHANGED <<featVars, predVars, fraudVars, auxVars, lifeVars>>

\* Lines 67-95, called at line 126: run_fraud_detection, in which the library
\* call of step `fault` raises, the fitted forest gives the decision scores
\* `scores`, and a tuned training retains contamination `best`; featured
\* and scored are the frames of engineer_features and calculate_fraud_scores
\* (fraud_detector.py lines 310 and 320).
FraudPipeline(featured, scored, fault, scores, best) ==
    LET load     == IF fault = "load" THEN "OperationalError"
                    ELSE LoadDataFromDb(disk, argv.db_path, db)
        stage    == IF load # "ok" THEN "load"
                    ELSE IF Len(db) < 10 THEN "few_transactions"
                    ELSE IF fault = "none" THEN "success"
                    ELSE fault
        called     == stage \notin {"load", "few_transactions"}
        engineered == called /\ stage # "features"
        trained    == engineered /\ stage # "train"
        scoredOk   == trained /\ stage # "score"
        result   == CASE stage = "load"             -> ExceptException(load)
                      [] stage = "few_transactions" -> FewTransactionsForFraud
                      [] stage = "success" ->
                             [status       |-> "success",
                              results      |-> [total_transactions   |-> Len(db),
                                                flagged_transactions |->
                                                    Cardinality(Flagged(scored))],
                              models_saved |-> FraudModelPath(argv.db_path)]
                      [] OTHER -> ExceptException(stage)
    IN  /\ fd_df' = IF called THEN db ELSE <<>>
        /\ fd_featured' = IF engineered THEN featured ELSE NotRun
        /\ fd_feature_columns' = IF engineered THEN FraudFeatureColumns ELSE <<>>
        /\ fd_scaler' = trained
        /\ contamination' = IF trained /\ output.tuning THEN best ELSE 5
        /\ isolation_forest' = IF trained THEN scores ELSE None
        /\ fd_is_trained' = trained
        /\ fd_scored' = IF scoredOk THEN scored ELSE NotRun
        /\ fd_pc' = IF scoredOk THEN "scored"
                    ELSE IF trained THEN "trained"
                    ELSE IF engineered THEN "prepared"
                    ELSE IF called THEN "start" ELSE "idle"
        /\ disk' = IF stage = "success"
                   THEN Dump(disk, FraudModelPath(argv.db_path), "fraud_models")
                   ELSE disk
        /\ run_raised' = [run_raised EXCEPT !.fraud_detection =
                             IF stage \in {"few_transactions", "success"}
                             THEN "none" ELSE stage]
        /\ IF result.status = "raised"
           THEN run_pc' = "crashed" /\ UNCHANGED output
           ELSE /\ run_pc' = "print"
                /\ output' = [output EXCEPT !.fraud_detection = result]
        /\ UNCHANGED <<argv, db, stdout>>
        /\ UNCHANGED <<featVars, predVars, auxVars, lifeVars>>

\* Lines 124-126.
RunFraudDetection ==
    /\ run_pc = "fraud"
    /\ "fraud_detection" \in Requested(output.task)
    /\ \E featured \in {FraudFeaturesOf(db)}, scores \in RunDecisionScores(db) :
          \E scored \in {FraudScoresOf(featured, scores)}, fault \in FraudFaults,
             best \in {1, 10} :
              FraudPipeline(featured, scored, fault, scores, best)

\* Line 124, the task being neither 'all' nor 'fraud'.
SkipFraudDetection ==
    /\ run_pc = "fraud"
    /\ "fraud_detection" \notin Requested(output.task)
    /\ run_pc' = "print"
    /\ UNCHANGED <<argv, db, disk, output, run_raised, stdout>>
    /\ UNCHANGED <<featVars, predVars, fraudVars, auxVars, lifeVars>>

\* Line 129: print(json.dumps(output, indent=2, default=str)).
PrintOutput ==
    /\ run_pc = "print"
    /\ stdout' = output
    /\ run_pc' = "done"
    /\ UNCHANGED <<argv, db, disk, output, run_raised>>
    /\ UNCHANGED <<featVars, predVars, fraudVars, auxVars, lifeVars>>

RunNext ==
    \/ ParseArguments
    \/ RunExpensePrediction
    \/ SkipExpensePrediction
    \/ RunFraudDetection
    \/ SkipFraudDetection
    \/ PrintOutput

SpecRun == RunInit /\ [][RunNext]_vars

----------------------------------------------------------------------------
(* Properties of the forecast pipeline *)

Returned == prediction.status = "returned"

\* C1: the weight map the constructor builds sums to 1.0 (100 hundredths),
\* with and without xgboost.
C1_WeightsSumToOne ==
    SumOver(ensemble_weights, DOMAIN ensemble_weights) = 100

\* C2: engineer_features on N distinct calendar months returns exactly
\* max(0, N - 6) rows, whatever the number of transactions in each month.
C2_RowsAreMonthsLessSix ==
    fe_pc # "start" =>
        Len(monthly_df) = Max(0, Cardinality({fe_df[i].ym : i \in 1..Len(fe_df)}) - 6)

\* C6 as stated: the ensemble value is max(0, sum of weight x RAW prediction).
C6_EnsembleOfRawPredictions ==
    Returned =>
        prediction.ensemble =
            Max(0, SumOver([n \in DOMAIN prediction.raw |->
                               (IF n \in DOMAIN ensemble_weights THEN ensemble_weights[n] ELSE 0)
                               * prediction.raw[n]],
                           DOMAIN prediction.raw))

\* C6 as amended: the ensemble value is the sum of weight x max(0, raw
\* prediction), every model's prediction being clamped at zero before it is
\* weighted; it is never negative.
C6_EnsembleOfClampedPredictions ==
    Returned =>
        /\ prediction.ensemble >= 0
        /\ prediction.ensemble =
              SumOver([n \in DOMAIN prediction.raw |->
                          (IF n \in DOMAIN ensemble_weights THEN ensemble_weights[n] ELSE 0)
                          * (IF prediction.raw[n] < 0 THEN 0 ELSE prediction.raw[n])],
                      DOMAIN prediction.raw)

\* A model predicted a negative amount and the ensemble is positive.
C6_Witness ==
    /\ Returned
    /\ \E n \in DOMAIN prediction.raw : prediction.raw[n] < 0
    /\ prediction.ensemble > 0

\* C7: the confidence is 100 - 100 x std / mean of the returned per-model
\* predictions, clamped to [0, 100]: it lies in [0, 100]; it is 0 when the
\* mean is 0; and otherwise, in tenths of a percent with c = 1000 - confidence,
\* c <= 1000 x std / mean < c + 1 unless the clamp applies.  With S the sum,
\* Q the sum of squares and n the number of predictions, std / mean is
\* sqrt(n Q - S S) / S.
C7_Confidence ==
    Returned =>
        LET p == prediction.predictions
            n == Cardinality(DOMAIN p)
            S == SumOver(p, DOMAIN p)
            D == n * SumOver([m \in DOMAIN p |-> p[m] * p[m]], DOMAIN p) - S * S
            c == 1000 - prediction.confidence
        IN  /\ prediction.confidence \in 0..1000
            /\ S = 0 => prediction.confidence = 0
            /\ S > 0 /\ c < 1000 => 1000000 * D < (c + 1) * (c + 1) * S * S
            /\ S > 0 /\ c > 0 => c * c * S * S <= 1000000 * D

\* Every model predicted 0: the mean is 0 and a confidence was returned.
C7_Witness ==
    /\ Returned
    /\ DOMAIN prediction.predictions # {}
    /\ \A n \in DOMAIN prediction.predictions : prediction.predictions[n] = 0

\* C8: the trend label is insufficient_data for fewer than 3 rows; for 6 rows
\* or more, increasing when the mean of the last 3 totals exceeds 1.10 x the
\* mean of the 3 before them, decreasing when it is below 0.90 x that mean,
\* stable otherwise; for 3 to 5 rows, stable.
C8_Trend ==
    Returned =>
        LET t == pred_in
            n == Len(t)
            recent == t[n] + t[n - 1] + t[n - 2]
            older  == t[n - 3] + t[n - 4] + t[n - 5]
        IN  /\ n < 3 => prediction.trend = "insufficient_data"
            /\ n \in 3..5 => prediction.trend = "stable"
            /\ n >= 6 =>
                  prediction.trend =
                      (IF 10 * recent > 11 * older THEN "increasing"
                       ELSE IF 10 * recent < 9 * older THEN "decreasing"
                       ELSE "stable")

\* Six rows or more whose recent mean is exactly 1.10 x the older mean.
C8_Witness ==
    /\ Returned
    /\ Len(pred_in) >= 6
    /\ LET n == Len(pred_in)
       IN  10 * (pred_in[n] + pred_in[n - 1] + pred_in[n - 2])
              = 11 * (pred_in[n - 3] + pred_in[n - 4] + pred_in[n - 5])
    /\ prediction.trend = "stable"

----------------------------------------------------------------------------
(* Properties of the fraud pipeline *)

Scored == fd_pc = "scored"

\* Bins closed on the left, the first bin taking 0 and the last one 100.
RiskLevelLeftClosed(score) ==
    IF IsNaN(score) \/ score < 0 \/ score > 10000000 THEN "NaN"
    ELSE IF score < 2500000 THEN "Low"
    ELSE IF score < 5000000 THEN "Medium"
    ELSE IF score < 7500000 THEN "High"
    ELSE "Critical"

\* The rows whose fused score the fixed-point units give without rounding:
\* the forest's lowest decision score (anomaly score exactly 100), a
\* percentile that is a whole number of ten-thousandths, a z-score of 0.
ExactScore(i) ==
    LET n     == Len(fd_df)
        less  == Cardinality({j \in 1..n : fd_df[j].amount < fd_df[i].amount})
        equal == Cardinality({j \in 1..n : fd_df[j].amount = fd_df[i].amount})
    IN  /\ isolation_forest[i] = MinSeq(isolation_forest)
        /\ (10000 * (2 * less + equal + 1)) % (2 * n) = 0
        /\ fd_scored[i].amount_zscore = 0

\* C3: the risk label of a fused score s comes from bins closed on the
\* left: Low for 0 <= s < 25, Medium for 25 <= s < 50, High for
\* 50 <= s < 75, Critical for 75 <= s <= 100, so that a score of exactly 50
\* is High.
C3_RiskBinsClosedOnTheLeft ==
    Scored =>
        \A i \in 1..Len(fd_scored) :
            ExactScore(i) =>
                fd_scored[i].risk_level = RiskLevelLeftClosed(fd_scored[i].fraud_score)

\* C4: after calculate_fraud_scores every transaction has a fused score
\* that is a number in [0, 100], a missing category or merchant included.
C4_FraudScoreDefined ==
    Scored =>
        \A i \in 1..Len(fd_scored) :
            /\ ~IsNaN(fd_scored[i].fraud_score)
            /\ fd_scored[i].fraud_score >= 0
            /\ fd_scored[i].fraud_score <= 10000000

\* C5: the transaction of 100,000 among 99 of 50 gets is_high_value = 1, a
\* positive amount_zscore and the label Critical (a fused score of at least
\* 75), whatever anomaly score the forest gives it.
C5_LargeTransactionCritical ==
    Scored /\ IsLargeInput(fd_df) =>
        /\ fd_scored[100].is_high_value = 1
        /\ fd_scored[100].amount_zscore > 0
        /\ fd_scored[100].fraud_score >= 7500000
        /\ fd_scored[100].risk_level = "Critical"

----------------------------------------------------------------------------
(* Properties of the orchestrator *)

\* The forecast pipeline has returned and engineer_features had given a frame.
ForecastFrameBuilt ==
    /\ output.expense_prediction.status # "absent"
    /\ fe_pc \in {"engineered", "prepared"}

BundlesOnDisk(kind) == {f \in disk : f.kind = kind}

\* C9: with fewer than 6 rows after feature engineering the forecast
\* pipeline returns an insufficient-data error, and so does the fraud
\* pipeline with fewer than 10 transactions; in both cases no model is
\* fitted and no bundle is saved.
C9_InsufficientDataRefused ==
    /\ ForecastFrameBuilt /\ Len(monthly_df) < 6 =>
           /\ output.expense_prediction \in {FewTransactionsForPrediction, FewMonths}
           /\ DOMAIN models = {}
           /\ ~is_trained
           /\ BundlesOnDisk("expense_models") = {}
    /\ (/\ output.fraud_detection.status # "absent"
        /\ run_raised.fraud_detection = "none"
        /\ Len(db) < 10) =>
           /\ output.fraud_detection = FewTransactionsForFraud
           /\ ~fd_is_trained
           /\ BundlesOnDisk("fraud_models") = {}

\* The forecast pipeline trained and saved on fewer than 6 rows.
C9_TrainedOnFewRows ==
    /\ ForecastFrameBuilt
    /\ Len(monthly_df) < 6
    /\ output.expense_prediction.status = "success"
    /\ BundlesOnDisk("expense_models") # {}

\* main is past the call of pipeline p, or past the test that skips it.
PastPipeline(p) ==
    IF p = "expense_prediction" THEN run_pc \in {"fraud", "print", "done"}
    ELSE run_pc \in {"print", "done"}

\* C10: an exception raised inside a pipeline function is returned as a
\* result with status 'error' and a message and never leaves the function;
\* main goes on to the fraud pipeline after a failed forecast pipeline, and
\* the output holds a result for the requested pipelines and for no other.
C10_FailuresReturnedAsErrors ==
    /\ run_pc # "crashed"
    /\ \A p \in Pipelines :
          /\ run_raised[p] # "none" =>
                /\ output[p].status = "error"
                /\ "message" \in DOMAIN output[p]
          /\ PastPipeline(p) =>
                /\ output[p].status # "absent" <=> p \in Requested(TaskOf(argv))
                /\ output[p].status \in {"absent", "success", "error"}
    /\ run_pc = "done" => stdout = output

\* A run with task 'all' whose forecast pipeline raised and whose fraud
\* pipeline succeeded.
C10_Witness ==
    /\ run_pc = "done"
    /\ TaskOf(argv) = "all"
    /\ run_raised.expense_prediction # "none"
    /\ output.expense_prediction.status = "error"
    /\ output.fraud_detection.status = "success"

----------------------------------------------------------------------------
(* Properties of the weight map *)

\* C13: without xgboost, random_forest and gradient_boosting share its
\* weight in proportion to their original weights, so that the ratio of their
\* weights is the original one.
C13_TreeWeightsKeepRatio ==
    ~HAS_XGBOOST =>
        ensemble_weights["random_forest"] * InitWeights(TRUE)["gradient_boosting"]
            = ensemble_weights["gradient_boosting"] * InitWeights(TRUE)["random_forest"]

----------------------------------------------------------------------------
(* Properties of the fraud features *)

FraudFeaturesBuilt == fd_pc \in {"engineered", "prepared", "trained", "scored"}

\* Transaction i is the only one of its category.
AloneInCategory(df, i) ==
    /\ df[i].category # Null
    /\ Cardinality({j \in 1..Len(df) : df[j].category = df[i].category}) = 1

\* C15: in an input of at least two transactions, a transaction that is
\* the only one of its category gets the standard deviation of all amounts as
\* its cat_std, and an amount_zscore that is a number: its deviation from the
\* category mean over that value plus 1.
C15_SingleCategoryZScore ==
    FraudFeaturesBuilt /\ Len(fd_df) >= 2 =>
        \A i \in 1..Len(fd_df) :
            AloneInCategory(fd_df, i) =>
                /\ ~IsNaN(SampleStd(Amounts(fd_df)))
                /\ fd_featured[i].cat_std = SampleStd(Amounts(fd_df))
                /\ fd_featured[i].cat_mean = 1000 * fd_df[i].amount
                /\ ~IsNaN(fd_featured[i].amount_zscore)
                /\ fd_featured[i].amount_zscore =
                       Quotient(1000 * fd_df[i].amount - fd_featured[i].cat_mean,
                                SampleStd(Amounts(fd_df)) + 1000)

\* The features of an input in which a transaction is alone in its category
\* and the amounts differ.
C15_Witness ==
    /\ FraudFeaturesBuilt
    /\ Len(fd_df) >= 2
    /\ \E i \in 1..Len(fd_df) :
          /\ AloneInCategory(fd_df, i)
          /\ fd_featured[i].cat_std > 0
          /\ fd_featured[i].amount_zscore = 0

----------------------------------------------------------------------------
(* Properties of the lag features *)

LagColumns == <<"lag_1", "lag_2", "lag_3", "lag_4", "lag_5", "lag_6">>

\* The total amount of the transactions of calendar month m (0 if none).
TotalOfMonth(df, m) == SumSeq(AmountsOf(df, m))

\* C20: in every retained row, of calendar month m, lag_k is the total
\* amount of the transactions of calendar month m - k, for k in 1..6, also
\* when a calendar month between the first and the last has no transaction.
C20_LagsAreCalendarMonths ==
    fe_pc \in {"engineered", "prepared"} =>
        \A i \in 1..Len(monthly_df) :
            \A k \in 1..Len(LagColumns) :
                monthly_df[i][LagColumns[k]]
                    = TotalOfMonth(fe_df, monthly_df[i]["year_month"] - k)

----------------------------------------------------------------------------
(* Properties of the forecast feature set *)

\* The columns of the aggregated frame that hold the number of transactions
\* of the row's own month: both are counts of its rows (lines 102-108).
TransactionCountColumns == {"transaction_count", "num_transactions"}

\* C19: the feature set fixed by prepare_data holds neither the bucket
\* key, nor the raw date, nor the target (the month's total), nor the month's
\* own transaction count, and keeps the order of the frame's columns.
C19_FeaturesExcludeCurrentMonth ==
    fe_pc = "prepared" =>
        /\ \A c \in Range(feature_columns) :
              /\ c \notin {"year_month", "date", "total_amount"}
              /\ c \notin TransactionCountColumns
        /\ feature_columns = SelectSeq(MonthlyColumns,
                                       LAMBDA c : c \in Range(feature_columns))

----------------------------------------------------------------------------
(* load_data_from_db, expense_predictor.py lines 70-86 and                 *)
(* fraud_detector.py lines 48-64, called with the user id that run_ml.py   *)
(* reads from the command line.  A row of the table is [id, user_id,       *)
(* date], the dates of a table being distinct.                             *)

\* Python's None where a number may stand.
NoUserId == 0 - 1

\* run_ml.py lines 107 and 115-116: user_id stays None unless an argument is
\* all digits, and is then int(arg).
ParseUserId(arg) ==
    CASE arg = "0" -> 0
      [] arg = "1" -> 1
      [] arg = "2" -> 2
      [] arg = "3" -> 3
      [] OTHER     -> NoUserId

\* Line 75: `if user_id:` is false for None and for 0.
Truthy(user_id) == user_id # NoUserId /\ user_id # 0

\* ORDER BY date.
SortByDate(rows) ==
    [i \in 1..Len(rows) |->
        CHOOSE r \in Range(rows) :
            Cardinality({q \in Range(rows) : q.date < r.date}) = i - 1]

\* Lines 73-77 and 79: the rows the query returns.
QueryTransactions(table, user_id) ==
    SortByDate(IF Truthy(user_id)
               THEN SelectSeq(table, LAMBDA r : r.user_id = user_id)
               ELSE table)

\* Lines 79-86: the frame returned, or the error raised for no row.
LoadOf(table, user_id) ==
    LET df == QueryTransactions(table, user_id)
    IN  IF Len(df) = 0
        THEN [status |-> "raised", error |-> "ValueError: No transaction data found"]
        ELSE [status |-> "returned", df |-> df]

\* Tables of n rows in insertion order, of users 0, 1 and 2, dated 1..n in
\* any order.
TablesOf(n) ==
    {[i \in 1..n |-> [id |-> i, user_id |-> u[i], date |-> d[i]]] :
        u \in [1..n -> 0..2],
        d \in {f \in [1..n -> 1..n] : \A i, j \in 1..n : f[i] = f[j] => i = j}}

LoadTables == UNION {TablesOf(n) : n \in 0..MaxLoadRows}

UserIdArguments == {"<absent>", "0", "1", "2", "3"}

LoadInit ==
    /\ FeatIdle
    /\ PredIdle
    /\ FraudIdle
    /\ LifeIdle
    /\ argv = <<>>
    /\ db \in LoadTables
    /\ disk = {}
    /\ output = NoOutput
    /\ run_raised = [expense_prediction |-> "none", fraud_detection |-> "none"]
    /\ stdout = NotRun
    /\ run_pc = "idle"
    /\ ld_user_id \in UserIdArguments
    /\ loaded = NoResult
    /\ tr_X = <<>>
    /\ tr_result = NoResult
    /\ tu_outcomes = NotTuned
    /\ tu_result = NoResult

\* run_ml.py lines 35 and 72: load_data_from_db(db_path, user_id).
LoadDataFromDbCall ==
    /\ loaded = NoResult
    /\ loaded' = LoadOf(db, ParseUserId(ld_user_id))
    /\ UNCHANGED <<ld_user_id, tr_X, tr_result, tu_outcomes, tu_result>>
    /\ UNCHANGED <<featVars, predVars, fraudVars, runVars, lifeVars>>

LoadNext == LoadDataFromDbCall

SpecLoad == LoadInit /\ [][LoadNext]_vars

\* The rows load_data_from_db is to return for a command-line user id.
ExpectedRows(table, arg) ==
    SortByDate(IF arg = "<absent>" THEN table
               ELSE SelectSeq(table, LAMBDA r : r.user_id = ParseUserId(arg)))

\* C14: with a user id on the command line load_data_from_db returns the
\* transactions of that user only, whatever the id (0 included), and without
\* one all transactions; in date order; and it raises when there is none.
C14_LoadsTheUsersTransactions ==
    loaded.status # "none" =>
        IF ExpectedRows(db, ld_user_id) = <<>>
        THEN loaded.status = "raised"
        ELSE /\ loaded.status = "returned"
             /\ loaded.df = ExpectedRows(db, ld_user_id)

----------------------------------------------------------------------------
(* The scaling and the split at the head of train_with_hyperparameter_     *)
(* tuning, expense_predictor.py lines 170-176, for one feature column.     *)
(* mean_ and scale_ are in thousandths, as are the scaled values.          *)

\* StandardScaler.fit: the mean of the rows given.
ScalerMean(rows) == (1000 * SumSeq(rows)) \div Len(rows)

\* StandardScaler.fit: the population standard deviation of the rows given,
\* a zero one replaced by 1.
ScalerScale(rows) ==
    LET n == Len(rows)
        sumsq == SumSeq([i \in 1..n |-> rows[i] * rows[i]])
        dev == n * sumsq - SumSeq(rows) * SumSeq(rows)
    IN  IF dev = 0 THEN 1000 ELSE ISqrt(1000000 * dev) \div n

\* StandardScaler.transform of one value.
Standardize(x, mean, scale) == ((1000 * x - mean) * 1000) \div scale

\* Line 174: int(len(X) * 0.8).
SplitIdx(n) == (n * 8) \div 10

\* Lines 171-175: fit_transform on X, then the two slices of X_scaled.
ScaleAndSplitOf(X) ==
    IF Len(X) = 0
    THEN [status |-> "raised", error |-> "ValueError: Found array with 0 sample(s)"]
    ELSE LET mean == ScalerMean(X)
             scale == ScalerScale(X)
             X_scaled == [i \in 1..Len(X) |-> Standardize(X[i], mean, scale)]
             split_idx == SplitIdx(Len(X))
         IN  [status |-> "returned",
              mean_ |-> mean,
              scale_ |-> scale,
              split_idx |-> split_idx,
              X_train |-> SubSeq(X_scaled, 1, split_idx),
              X_test |-> SubSeq(X_scaled, split_idx + 1, Len(X))]

SplitValues == {0, 1, 3}

SplitInputs == UNION {[1..n -> SplitValues] : n \in 0..MaxSplitRows}

SplitInit ==
    /\ FeatIdle
    /\ PredIdle
    /\ FraudIdle
    /\ RunIdle
    /\ LifeIdle
    /\ ld_user_id = "<absent>"
    /\ loaded = NoResult
    /\ tr_X \in SplitInputs
    /\ tr_result = NoResult
    /\ tu_outcomes = NotTuned
    /\ tu_result = NoResult

\* Lines 170-176 of train_with_hyperparameter_tuning; the fitting of the
\* models on the two parts, which follows, is TrainOn.
ScaleAndSplit ==
    /\ tr_result = NoResult
    /\ tr_result' = ScaleAndSplitOf(tr_X)
    /\ UNCHANGED <<ld_user_id, loaded, tr_X, tu_outcomes, tu_result>>
    /\ UNCHANGED <<featVars, predVars, fraudVars, runVars, lifeVars>>

SplitNext == ScaleAndSplit

SpecSplit == SplitInit /\ [][SplitNext]_vars

\* The training rows of X: its first 80%.
TrainingRows(X) == SubSeq(X, 1, SplitIdx(Len(X)))

\* The split is by position, without reordering.
SplitByPosition ==
    tr_result.status = "returned" =>
        /\ Len(tr_result.X_train) = SplitIdx(Len(tr_X))
        /\ tr_result.X_train \o tr_result.X_test =
               [i \in 1..Len(tr_X) |->
                   Standardize(tr_X[i], tr_result.mean_, tr_result.scale_)]

\* C16: the split is the first 80% of the rows for training and the last 20%
\* for test, in order, and the scaler's mean and scale are those of the
\* training rows alone.
C16_ScalerFittedOnTrainingRows ==
    tr_result.status = "returned" =>
        /\ SplitByPosition
        /\ TrainingRows(tr_X) # <<>> =>
               /\ tr_result.mean_ = ScalerMean(TrainingRows(tr_X))
               /\ tr_result.scale_ = ScalerScale(TrainingRows(tr_X))

----------------------------------------------------------------------------
(* train_isolation_forest, fraud_detector.py lines 151-245: the sweep over *)
(* the parameter grid and what the call keeps and reports.  What a         *)
(* candidate's fit and scoring do is an input: it raises, or it gives the  *)
(* spread np.std(scores).  Parameter values are written as in the source.  *)

\* Lines 165-171: param_grid.
ParamGrid ==
    [n_estimators  |-> <<50, 100, 150, 200>>,
     max_samples   |-> <<"auto", "0.5", "0.75", "1.0">>,
     contamination |-> <<"0.01", "0.02", "0.05", "0.1">>,
     max_features  |-> <<"0.5", "0.75", "1.0">>,
     bootstrap     |-> <<TRUE, FALSE>>]

\* The first n values of a list of the grid.
FirstValues(list, n) == SubSeq(list, 1, Min(n, Len(list)))

\* The part of the grid the sweep is run over.
SweptGrid ==
    [n_estimators  |-> FirstValues(ParamGrid.n_estimators, MaxEstimators),
     max_samples   |-> FirstValues(ParamGrid.max_samples, MaxInnerValues),
     contamination |-> FirstValues(ParamGrid.contamination, MaxContaminations),
     max_features  |-> FirstValues(ParamGrid.max_features, MaxInnerValues),
     bootstrap     |-> ParamGrid.bootstrap]

\* Lines 178-182: the candidates in the order of the five nested loops,
\* n_estimators the outermost and bootstrap the innermost.
CandidatesOf(grid) ==
    LET nb == Len(grid.bootstrap)
        nf == Len(grid.max_features)
        nc == Len(grid.contamination)
        ns == Len(grid.max_samples)
        ne == Len(grid.n_estimators)
    IN  [k \in 1..(ne * ns * nc * nf * nb) |->
            [n_estimators  |-> grid.n_estimators[1 + (((k - 1) \div (nb * nf * nc * ns)) % ne)],
             max_samples   |-> grid.max_samples[1 + (((k - 1) \div (nb * nf * nc)) % ns)],
             contamination |-> grid.contamination[1 + (((k - 1) \div (nb * nf)) % nc)],
             max_features  |-> grid.max_features[1 + (((k - 1) \div nb) % nf)],
             bootstrap     |-> grid.bootstrap[1 + ((k - 1) % nb)]]]

Candidates == CandidatesOf(SweptGrid)

\* float('-inf'), below every spread.
NegInf == 0 - 1

\* Lines 173-210: the state of the sweep after candidates i.. of the list,
\* entered with best_score and best_params (no entry, or the one retained).
RECURSIVE SweepFrom(_, _, _, _)
SweepFrom(i, outcomes, best_score, best_params) ==
    IF i > Len(outcomes)
    THEN best_params
    ELSE IF outcomes[i].raised
         THEN SweepFrom(i + 1, outcomes, best_score, best_params)
         ELSE IF outcomes[i].score > best_score
              THEN SweepFrom(i + 1, outcomes, outcomes[i].score, <<Candidates[i]>>)
              ELSE SweepFrom(i + 1, outcomes, best_score, best_params)

\* IsolationForest(**best_params, ...): the constructor's defaults stand for
\* what best_params lacks.
ForestOf(best_params) ==
    IF best_params = <<>>
    THEN [n_estimators |-> 100, max_samples |-> "auto", contamination |-> "auto",
          max_features |-> "1.0", bootstrap |-> FALSE]
    ELSE best_params[1]

\* Lines 213: best_params.get('contamination', 0.05).
ContaminationOf(best_params) ==
    IF best_params = <<>> THEN "0.05" ELSE best_params[1].contamination

\* Lines 151-245 for a detector whose contamination is that of __init__.
TrainIsolationForestOf(in) ==
    LET best_params == IF in.tune THEN SweepFrom(1, in.candidates, NegInf, <<>>) ELSE <<>>
        self_contamination == IF in.tune THEN ContaminationOf(best_params) ELSE "0.05"
        forest == IF in.tune
                  THEN ForestOf(best_params)
                  ELSE [n_estimators |-> 100, max_samples |-> "auto",
                        contamination |-> "0.05", max_features |-> "1.0",
                        bootstrap |-> FALSE]
    IN  IF in.final = "raises"
        THEN [status |-> "raised", best_params |-> best_params,
              self_contamination |-> self_contamination,
              isolation_forest |-> forest, is_trained |-> FALSE]
        ELSE [status |-> "returned", best_params |-> best_params,
              self_contamination |-> self_contamination,
              isolation_forest |-> forest, is_trained |-> TRUE,
              summary |-> [contamination |-> self_contamination]]

\* What the fit and the scoring of one candidate do.
CandidateOutcomes ==
    {[raised |-> TRUE, score |-> NegInf]} \cup
    {[raised |-> FALSE, score |-> s] : s \in 1..2}

TuneInputs ==
    {[tune |-> TRUE, candidates |-> c, final |-> f] :
        c \in [1..Len(Candidates) -> CandidateOutcomes], f \in {"fitted", "raises"}}
    \cup {[tune |-> FALSE, candidates |-> <<>>, final |-> f] : f \in {"fitted", "raises"}}

TuneInit ==
    /\ FeatIdle
    /\ PredIdle
    /\ FraudIdle
    /\ RunIdle
    /\ LifeIdle
    /\ ld_user_id = "<absent>"
    /\ loaded = NoResult
    /\ tr_X = <<>>
    /\ tr_result = NoResult
    /\ tu_outcomes \in TuneInputs
    /\ tu_result = NoResult

\* One call of train_isolation_forest on a new detector.
TuneIsolationForest ==
    /\ tu_result = NoResult
    /\ tu_result' = TrainIsolationForestOf(tu_outcomes)
    /\ UNCHANGED <<ld_user_id, loaded, tr_X, tr_result, tu_outcomes>>
    /\ UNCHANGED <<featVars, predVars, fraudVars, runVars, lifeVars>>

TuneNext == TuneIsolationForest

SpecTune == TuneInit /\ [][TuneNext]_vars

\* The candidates that did not raise and have the largest spread of them.
Widest(outcomes) ==
    {k \in 1..Len(outcomes) :
        /\ ~outcomes[k].raised
        /\ \A j \in 1..Len(outcomes) :
               ~outcomes[j].raised => outcomes[j].score <= outcomes[k].score}

Tuned == tu_result.status # "none" /\ tu_outcomes.tune

\* The sweep retains the first of the widest non-failing candidates, failing
\* ones being skipped.
FirstWidestRetained ==
    (Tuned /\ Widest(tu_outcomes.candidates) # {}) =>
        tu_result.best_params =
            <<Candidates[CHOOSE k \in Widest(tu_outcomes.candidates) :
                \A j \in Widest(tu_outcomes.candidates) : k <= j]>>

\* C18: with tuning the sweep retains the first, in enumeration order, of the
\* non-failing candidates of largest spread, a failing candidate being
\* skipped, and the summary reports the contamination of the fitted forest.
C18_SweepRetainsFirstWidest ==
    /\ FirstWidestRetained
    /\ (Tuned /\ tu_result.status = "returned") =>
           tu_result.summary.contamination = tu_result.isolation_forest.contamination

----------------------------------------------------------------------------
(* The life of one object: any sequence of its operations, a call that     *)
(* raises included.  The ExpensePredictor object is the predictor's        *)
(* variables; the FraudDetector object is the record `detector`.           *)

\* What the models fitted on the d-th data predict.
LifeTrainingSet(d) ==
    [base |-> 4, other |-> IF d = 1 THEN 4 ELSE 0, odd |-> "linear"]

\* The attributes of the ExpensePredictor object.
PredictorObject ==
    [kind |-> "predictor", models |-> models, scaler |-> scaler,
     feature_columns |-> feature_columns, ensemble_weights |-> ensemble_weights,
     is_trained |-> is_trained]

\* expense_predictor.py lines 417-422: the dict save_models dumps.
PredictorBundleOf(obj) ==
    [kind |-> "predictor", models |-> obj.models, scaler |-> obj.scaler,
     feature_columns |-> obj.feature_columns,
     ensemble_weights |-> obj.ensemble_weights]

\* A load_models that leaves the object's scaler as it is.
PredictorLoadKeepingScaler(data) ==
    [kind |-> "predictor", models |-> data.models, scaler |-> scaler,
     feature_columns |-> data.feature_columns,
     ensemble_weights |-> data.ensemble_weights, is_trained |-> TRUE]

\* Lines 427-432: the object after load_models; is_trained is set whatever
\* the bundle holds.  Every attribute but HAS_XGBOOST, which is the
\* module's, is assigned, so the object after
\* the call is the same whether it was a new one or not.
PredictorLoadOf(data) ==
    [kind |-> "predictor", models |-> data.models, scaler |-> data.scaler,
     feature_columns |-> data.feature_columns,
     ensemble_weights |-> data.ensemble_weights, is_trained |-> TRUE]

LifeFrame == UNCHANGED <<fraudVars, runVars, auxVars, life_obj>>

\* prepare_data, lines 145-156.
PredictorPrepareData ==
    /\ life_obj = "predictor"
    /\ feature_columns' = FeatureColumnsOf(MonthlyColumns)
    /\ last_op' = Op("prepare_data", FALSE, is_trained)
    /\ UNCHANGED <<fe_df, monthly_df, fe_pc>>
    /\ UNCHANGED predVars
    /\ UNCHANGED <<detector, det_result, bundle, saved_from>>
    /\ LifeFrame

\* train_with_hyperparameter_tuning on the d-th data; it completes, or it
\* raises in the fit of the first or of the second model.
PredictorTrain ==
    /\ life_obj = "predictor"
    /\ \E d \in 1..MaxLifeData, done \in {0, 1, Len(TrainOrder(HAS_XGBOOST))} :
          /\ TrainOn(d, LifeTrainingSet(d), done)
          /\ last_op' = Op("train", done < Len(TrainOrder(HAS_XGBOOST)), is_trained)
    /\ UNCHANGED <<life_obj, detector, det_result, bundle, saved_from>>

\* predict_next_month.
PredictorPredict ==
    /\ life_obj = "predictor"
    /\ \E totals \in FlatTotals :
          /\ PredictOn(totals)
          /\ last_op' = Op("predict",
                           PredictNextMonthWith(is_trained, scaler, models,
                               ensemble_weights, totals).status = "raised",
                           is_trained)
    /\ UNCHANGED <<life_obj, detector, det_result, bundle, saved_from>>

\* save_models, lines 415-423.
PredictorSave ==
    /\ life_obj = "predictor"
    /\ bundle' = PredictorBundleOf(PredictorObject)
    /\ saved_from' = PredictorObject
    /\ last_op' = Op("save", FALSE, is_trained)
    /\ UNCHANGED <<featVars, predVars, detector, det_result>>
    /\ LifeFrame

\* load_models, lines 425-433, of the bundle written before; joblib.load
\* raises when there is none.
PredictorLoad ==
    /\ life_obj = "predictor"
    /\ IF bundle.kind = "none"
       THEN /\ last_op' = Op("load", TRUE, is_trained)
            /\ UNCHANGED <<featVars, predVars>>
       ELSE \E obj \in {PredictorLoadOf(bundle)} :
               /\ models' = obj.models
               /\ scaler' = obj.scaler
               /\ feature_columns' = obj.feature_columns
               /\ ensemble_weights' = obj.ensemble_weights
               /\ is_trained' = obj.is_trained
               /\ last_op' = Op("load", FALSE, is_trained)
               /\ UNCHANGED <<HAS_XGBOOST, pred_in, prediction, fe_df, monthly_df, fe_pc>>
    /\ UNCHANGED <<detector, det_result, bundle, saved_from>>
    /\ LifeFrame

----------------------------------------------------------------------------
(* The FraudDetector object, fraud_detector.py.  A fitted scaler or forest *)
(* is told by the number of the data it was fitted on, 0 being an unfitted *)
(* StandardScaler; label_encoders is 0 for {} and 1 with the two encoders. *)

\* Lines 40-46: FraudDetector().
NewDetector ==
    [isolation_forest |-> [state |-> "None", data |-> 0],
     scaler |-> 0,
     label_encoders |-> 0,
     feature_columns |-> <<>>,
     is_trained |-> FALSE,
     contamination |-> "0.05"]

\* The contamination the sweep retains on the d-th data.
LifeContamination(d) == IF d = 1 THEN "0.05" ELSE "0.1"

\* A scaler refitted by the call (not what transform does).
ScalerRefitted(s, d) == d

\* Line 252, scaler.transform: the statistics are read, not written.
ScalerAfterTransform(s, d) == s

\* The points at which train_isolation_forest may raise: fit_transform at
\* line 161, the final fit at line 228, predict or decision_function at
\* lines 232-233; or nowhere.
DetectorTrainFaults == {"fit_transform", "fit", "predict", "none"}

\* Lines 151-245: the object after train_isolation_forest on the d-th data.
\* StandardScaler.fit resets the statistics before it validates X.
DetectorTrainOf(obj, d, tune, fault) ==
    IF fault = "fit_transform"
    THEN [obj EXCEPT !.scaler = 0]
    ELSE LET contam == IF tune THEN LifeContamination(d) ELSE obj.contamination
         IN  IF fault = "fit"
             THEN [obj EXCEPT !.scaler = d,
                              !.contamination = contam,
                              !.isolation_forest = [state |-> "unfitted", data |-> 0]]
             ELSE [obj EXCEPT !.scaler = d,
                              !.contamination = contam,
                              !.isolation_forest = [state |-> "fitted", data |-> d],
                              !.is_trained = TRUE]

\* Lines 247-299: what calculate_fraud_scores on the d-th data returns or
\* raises.  `if self.isolation_forest:` asks an ensemble for its length, the
\* number of its fitted trees: an unfitted forest has none to count.
DetectorScoreOf(obj, d) ==
    IF obj.scaler = 0
    THEN [status |-> "raised", error |-> "NotFittedError: StandardScaler",
          scaler |-> 0, forest |-> 0]
    ELSE IF obj.isolation_forest.state = "unfitted"
    THEN [status |-> "raised", error |-> "AttributeError: estimators_",
          scaler |-> obj.scaler, forest |-> 0]
    ELSE [status |-> "returned", error |-> "",
          scaler |-> obj.scaler, forest |-> obj.isolation_forest.data]

\* Lines 341-347: the dict save_models dumps.
DetectorBundleOf(obj) ==
    [kind |-> "detector", isolation_forest |-> obj.isolation_forest,
     scaler |-> obj.scaler, label_encoders |-> obj.label_encoders,
     feature_columns |-> obj.feature_columns, contamination |-> obj.contamination]

\* Lines 352-358: the object after load_models.
DetectorLoadOf(data) ==
    [isolation_forest |-> data.isolation_forest,
     scaler |-> data.scaler,
     label_encoders |-> data.label_encoders,
     feature_columns |-> data.feature_columns,
     is_trained |-> TRUE,
     contamination |-> data.contamination]

DetectorFrame ==
    UNCHANGED <<featVars, predVars, fraudVars, runVars, auxVars, life_obj>>

\* engineer_features, lines 66-132: the encoders are fitted on the data.
DetectorEngineerFeatures ==
    /\ life_obj = "detector"
    /\ detector' = [detector EXCEPT !.label_encoders = 1]
    /\ last_op' = Op("engineer_features", FALSE, detector.is_trained)
    /\ UNCHANGED <<det_result, bundle, saved_from>>
    /\ DetectorFrame

\* prepare_features, lines 134-149.
DetectorPrepareFeatures ==
    /\ life_obj = "detector"
    /\ detector' = [detector EXCEPT !.feature_columns = FraudFeatureColumns]
    /\ last_op' = Op("prepare_features", FALSE, detector.is_trained)
    /\ UNCHANGED <<det_result, bundle, saved_from>>
    /\ DetectorFrame

\* train_isolation_forest.
DetectorTrain ==
    /\ life_obj = "detector"
    /\ \E d \in 1..MaxLifeData, tune \in BOOLEAN, fault \in DetectorTrainFaults :
          /\ detector' = DetectorTrainOf(detector, d, tune, fault)
          /\ last_op' = Op("train", fault # "none", detector.is_trained)
    /\ UNCHANGED <<det_result, bundle, saved_from>>
    /\ DetectorFrame

\* calculate_fraud_scores.
DetectorScore ==
    /\ life_obj = "detector"
    /\ \E d \in 1..MaxLifeData :
          /\ det_result' = DetectorScoreOf(detector, d)
          /\ detector' = [detector EXCEPT
                             !.scaler = ScalerAfterTransform(detector.scaler, d)]
          /\ last_op' = Op("score", DetectorScoreOf(detector, d).status = "raised",
                           detector.is_trained)
    /\ UNCHANGED <<bundle, saved_from>>
    /\ DetectorFrame

\* save_models, lines 339-348.
DetectorSave ==
    /\ life_obj = "detector"
    /\ bundle' = DetectorBundleOf(detector)
    /\ saved_from' = [kind |-> "detector", object |-> detector]
    /\ last_op' = Op("save", FALSE, detector.is_trained)
    /\ UNCHANGED <<detector, det_result>>
    /\ DetectorFrame

\* load_models, lines 350-359, of the bundle written before; joblib.load
\* raises when there is none.
DetectorLoad ==
    /\ life_obj = "detector"
    /\ IF bundle.kind = "none"
       THEN /\ last_op' = Op("load", TRUE, detector.is_trained)
            /\ UNCHANGED detector
       ELSE /\ detector' = DetectorLoadOf(bundle)
            /\ last_op' = Op("load", FALSE, detector.is_trained)
    /\ UNCHANGED <<det_result, bundle, saved_from>>
    /\ DetectorFrame

\* A new object of either class.
LifeInit ==
    /\ FeatIdle
    /\ FraudIdle
    /\ RunIdle
    /\ AuxIdle
    /\ life_obj \in {"predictor", "detector"}
    /\ HAS_XGBOOST \in IF life_obj = "predictor" THEN BOOLEAN ELSE {FALSE}
    /\ ensemble_weights = IF life_obj = "predictor" THEN InitWeights(HAS_XGBOOST)
                          ELSE <<>>
    /\ models = <<>>
    /\ is_trained = FALSE
    /\ scaler = 0
    /\ pred_in = <<>>
    /\ prediction = NoResult
    /\ detector = IF life_obj = "detector" THEN NewDetector ELSE Absent
    /\ det_result = NoResult
    /\ bundle = NoBundle
    /\ saved_from = NoBundle
    /\ last_op = NoOp

LifeNext ==
    \/ PredictorPrepareData
    \/ PredictorTrain
    \/ PredictorPredict
    \/ PredictorSave
    \/ PredictorLoad
    \/ DetectorEngineerFeatures
    \/ DetectorPrepareFeatures
    \/ DetectorTrain
    \/ DetectorScore
    \/ DetectorSave
    \/ DetectorLoad

SpecLifecycle == LifeInit /\ [][LifeNext]_vars

----------------------------------------------------------------------------
(* Properties of the life of one object *)

\* C11: a prediction or scoring request on an object that no training and no
\* load_models has made trained fails with the untrained-model error, and a
\* training call that raises leaves an untrained object untrained.
C11_UntrainedRequestsRefused ==
    /\ (life_obj = "predictor" /\ last_op.op = "predict" /\ ~last_op.was_trained) =>
           /\ prediction.status = "raised"
           /\ prediction.error = "ValueError: Models not trained"
    /\ (life_obj = "detector" /\ last_op.op = "score" /\ ~last_op.was_trained) =>
           /\ det_result.status = "raised"
           /\ det_result.error = "ValueError: Models not trained"
    /\ (last_op.op = "train" /\ last_op.raised /\ ~last_op.was_trained) =>
           IF life_obj = "predictor" THEN ~is_trained ELSE ~detector.is_trained

\* The last operation was a load_models that returned.
Loaded == last_op.op = "load" /\ ~last_op.raised

\* Every component in the bundle is the saved object's.
Restored ==
    IF life_obj = "predictor"
    THEN /\ models = saved_from.models
         /\ scaler = saved_from.scaler
         /\ feature_columns = saved_from.feature_columns
         /\ ensemble_weights = saved_from.ensemble_weights
    ELSE /\ detector.isolation_forest = saved_from.object.isolation_forest
         /\ detector.scaler = saved_from.object.scaler
         /\ detector.label_encoders = saved_from.object.label_encoders
         /\ detector.feature_columns = saved_from.object.feature_columns
         /\ detector.contamination = saved_from.object.contamination

\* predict_next_month gives on every frame what it gave on the saved object.
SamePrediction ==
    \A totals \in FlatTotals :
        PredictNextMonthWith(is_trained, scaler, models, ensemble_weights, totals)
        = PredictNextMonthWith(saved_from.is_trained, saved_from.scaler,
                               saved_from.models, saved_from.ensemble_weights, totals)

\* calculate_fraud_scores gives on every data what it gave on the saved
\* object.
SameScores ==
    \A d \in 1..MaxLifeData :
        DetectorScoreOf(detector, d) = DetectorScoreOf(saved_from.object, d)

Statistics == IF life_obj = "predictor" THEN scaler ELSE detector.scaler

\* C17 as stated: once fitted, the statistics are changed by no operation.
C17_StatisticsWrittenOnce ==
    [][Statistics # 0 => Statistics' = Statistics]_vars

\* C17: the statistics are written by training calls and by load_models
\* only, and calculate_fraud_scores reads those of the latest of them.
C17_StatisticsWrittenByFitAndLoad ==
    [][last_op'.op \notin {"train", "load"} =>
          /\ Statistics' = Statistics
          /\ (last_op'.op = "score" /\ ~last_op'.raised) =>
                 det_result'.scaler = Statistics]_vars

C17_Witness ==
    /\ life_obj = "detector"
    /\ last_op.op = "score"
    /\ det_result.status = "returned"
    /\ det_result.scaler = 2
    /\ bundle.kind = "detector"
    /\ bundle.scaler = 1

----------------------------------------------------------------------------
(* Files of a run *)

\* The database file is on disk as main found it.
DatabaseKept == [path |-> argv.db_path, kind |-> "database"] \in disk

\* The pipeline p returned success, so it saved its bundle.
Saved(p) == PastPipeline(p) /\ output[p].status = "success"

\* C21: whatever database path is given, the database file and the two model
\* bundles are three different paths: over a run a save overwrites neither
\* the database nor the other pipeline's bundle, and the fraud pipeline,
\* which runs second, still reads the transactions.
C21_ThreeDifferentPaths ==
    /\ argv.db_path # ExpenseModelPath(argv.db_path)
    /\ argv.db_path # FraudModelPath(argv.db_path)
    /\ ExpenseModelPath(argv.db_path) # FraudModelPath(argv.db_path)
    /\ DatabaseKept
    /\ Saved("expense_prediction") =>
           [path |-> ExpenseModelPath(argv.db_path), kind |-> "expense_models"] \in disk
    /\ Saved("fraud_detection") =>
           [path |-> FraudModelPath(argv.db_path), kind |-> "fraud_models"] \in disk
    /\ (PastPipeline("fraud_detection") /\ output.fraud_detection.status = "error") =>
           output.fraud_detection.message # "DatabaseError"

====
